---- MODULE Spec2Model ----
(***************************************************************************)
(* Per-device concurrency core of the Samwise controller                   *)
(* (controller/src/device.rs): the state poller, the action handler, the   *)
(* Device handle, and the HTTP routes that feed it                         *)
(* (controller/src/server.rs), with the agent client's ping                *)
(* (controller/src/agent.rs).                                              *)
(*                                                                         *)
(* Spec is the device with its action requests; FairSpec adds the fairness *)
(* of the two tasks and of the await's timer; ServerSpec adds requests that*)
(* name a device the map does not hold; PanicSpec adds a panic of the      *)
(* poller's task; PingSpec applies ping to replies fixed ahead of each     *)
(* call.                                                                   *)
(*                                                                         *)
(* Next to the device core: PacketSpec is build_magic_packet and WakerSpec *)
(* the Waker shared by the devices (controller/src/wake.rs); IdSpec is     *)
(* DeviceId::new (controller/src/id.rs); AgentSpec is the agent's power    *)
(* RPCs (agent/src/main.rs); LifecycleSpec is the controller's shutdown    *)
(* (controller/src/main.rs, controller/src/shutdown.rs). Each leaves the   *)
(* others' state at rest.                                                  *)
(*                                                                         *)
(* The two channels are tokio 0.2 channels:                                *)
(*   - mpsc::channel(1): try_send takes the single permit, recv() gives it *)
(*     back when it pops the message; after the last Sender is dropped     *)
(*     recv() still yields what is queued and then None.                   *)
(*   - watch::channel(State::Unknown): broadcast() overwrites the value and*)
(*     bumps the version; it fails once every Receiver is gone; a Receiver *)
(*     clone copies the version its source has seen, recv() returns at once*)
(*     when the shared version differs from the one the receiver has seen, *)
(*     and returns None when it has seen the latest and the Sender is gone.*)
(***************************************************************************)
EXTENDS Integers, Sequences, FiniteSets, TLC

\* ---------------------------------------------------------------- bounds
\* Number of Device::action calls made by clients in one run.
MaxSubmissions == 3

\* ------------------------------------------------------------- constants
\* mpsc::channel(1)
ACTION_CAPACITY == 1
GRUB_MENU_ENTRY_VAR == "samwise_entry"
\* warp::http::StatusCode values used by the action routes
STATUS_OK == 200
STATUS_SERVICE_UNAVAILABLE == 503
STATUS_NOT_FOUND == 404
STATUS_METHOD_NOT_ALLOWED == 405
STATUS_INTERNAL_SERVER_ERROR == 500

\* ---------------------------------------------------------- configuration
\* The device of the configuration example: id, MAC, targets, interfaces.
DEVICE_ID == "d1"
mac_address == "aa:bb:cc:dd:ee:ff"
default_interface == "eth0"
\* the values DeviceConfiguration::interface() can have ("" is None)
InterfaceOptions == {"", "eth1"}
\* the keys of the device map handed to serve
Devices == {DEVICE_ID}
\* device ids that requests name, and the routes under /device/{id}/
RequestIds == {"d1", "d2", "d1x"}
Routes == {"status", "suspend", "shutdown", "reboot", "run"}
\* Handler.targets: target id -> menu_entry
targets == [windows |-> "Windows 10", ubuntu |-> "Ubuntu 22.04"]
\* target ids a client asks for; "bsd" is not configured
TargetIds == {"ubuntu", "bsd"}
\* target names the device's agents report (their target_name)
AgentTargets == {"windows", "ubuntu"}

\* ------------------------------------------------------------ data types
\* enum Action
Run(t) == <<"Run", t>>
Reboot == <<"Reboot">>
Suspend == <<"Suspend">>
ShutDown == <<"ShutDown">>
Actions == {Run(t) : t \in TargetIds} \cup {Reboot, Suspend, ShutDown}

\* enum State
Unknown == <<"Unknown">>
Running(t) == <<"Running", t>>
Off == <<"Off">>

\* enum AgentStatus
Active(t) == <<"Active", t>>
Inactive == <<"Inactive">>
AgentStatuses == {Active(t) : t \in AgentTargets} \cup {Inactive}
\* no ping made yet
NoStatus == <<"None">>

\* What self.client.ping(req).await gives: Ok(response) with the response's
\* current_target, or Err(status) with a gRPC status code (a connect failure
\* and an expired deadline come as such a status too).
ReplyOk(t) == <<"Ok", t>>
ReplyErr(code) == <<"Err", code>>
\* the replies the agents of this device give
AgentReplies ==
  {ReplyOk(t) : t \in AgentTargets}
    \cup {ReplyErr(c) : c \in {"Unavailable", "DeadlineExceeded"}}
\* tonic::Code but Ok
GrpcCodes ==
  {"Cancelled", "Unknown", "InvalidArgument", "DeadlineExceeded", "NotFound",
   "AlreadyExists", "PermissionDenied", "ResourceExhausted",
   "FailedPrecondition", "Aborted", "OutOfRange", "Unimplemented", "Internal",
   "Unavailable", "DataLoss", "Unauthenticated"}
\* the replies any agent may give: also a target name the controller does not
\* know, an empty one, and every status code
PingReplies ==
  {ReplyOk(t) : t \in AgentTargets \cup {"bsd", ""}}
    \cup {ReplyErr(c) : c \in GrpcCodes}
NoReply == <<"None">>

\* Bug variant: an Ok reply that names no target counts as no reply.
ping_empty_target_inactive(reply) ==
  IF reply[1] = "Ok" /\ reply[2] # "" THEN Active(reply[2]) ELSE Inactive

\* AgentConnection::ping: the match on the outcome of the Ping RPC.
ping(reply) ==
  IF reply[1] = "Ok" THEN Active(reply[2]) ELSE Inactive

\* the steps of a handle_* function that wait on the state channel, and the
\* ones that send a command to the device
AwaitOps == {"await_running_target", "await_running", "await_off"}
TransportOps == {"boot", "reboot", "suspend", "shut_down"}

VARIABLES
  network_interface, \* Handler.network_interface, fixed by Device::start
  cfg_interface,     \* DeviceConfiguration::interface() of this device
  handles,           \* live long-lived Device handles: the device map's one
  queue,             \* action channel buffer: messages [id, action]
  state,             \* value held by the state (watch) channel
  rxSeen,            \* await_state's receiver clone has seen the latest version
                     \* (FALSE when there is no clone)
  ppc,               \* state_poller position: "select", "exited"
  pollRes,           \* result of the poller's latest ping
  hpc,               \* Handler position: "recv", "ping", "run", "await",
                     \* "return" (handle_* gave its result), "exited"
  cur,               \* the message being handled: [id, action]
  pingRes,           \* result of the handler's own ping for cur
  plan,              \* what is left to do for cur, in order
  log,               \* effects issued for cur so far: [id, op, arg, ok]
  result,            \* what handle_* returned for cur: "none" (not yet), "ok",
                     \* or the error kind
  grub,              \* content of the device's GRUB config file
  nsub,              \* number of Device::action calls made so far
  rejected,          \* ids of the calls that returned an error
  popped,            \* ids the handler has popped, in order
  handled,           \* ids whose handle_* function has returned, in order
  resp,              \* HTTP response to the latest action request
  pubSince,          \* the poller has broadcast since the latest transport
                     \* command (WoL or RPC) of cur was issued
  errLogged,         \* Handler::process logged "Handling .. action failed"
                     \* for the handle_* call that returned last
  req,               \* the device id of the latest request when it is not a
                     \* key of the device map, "" otherwise
  pingReply,         \* the agent's reply to the next Ping RPC when it is fixed
                     \* ahead of the call (PingSpec), NoReply otherwise
  packetSource,      \* build_magic_packet's argument `source`
  packetDest,        \* build_magic_packet's argument `dest`
  packetBuf,         \* the buffer handed to build_magic_packet
  packetRes,         \* what build_magic_packet returned: "none" (not called
                     \* yet), "ok" or "err"
  idInput,           \* the string handed to DeviceId::new, as characters
  idRes,             \* what DeviceId::new gave back, NoId before the call
  wakeIface,         \* per caller of Waker::wake: the interface name it passes
  wpc,               \* per caller: "idle", "sender" (in the blocking closure,
                     \* about to lock `senders`), "create" (in Shared::sender,
                     \* holding `senders`), "lock" (has the sender's Arc, about
                     \* to lock it), "send" (in send_magic_packet, holding the
                     \* sender), "done" (wake has its result)
  wakeRes,           \* per caller: result of its call, "none" until it has one
  wakeSent,          \* per caller: its call handed a packet to the datalink
  senders,           \* Shared.senders: the interface names with a cached sender
  sendersLock,       \* holder of the Mutex around Shared.senders, or NoHolder
  senderLock,        \* per interface: holder of its sender's Mutex, or NoHolder
  agentConfig,       \* AgentConfiguration: per power method, its command
  rpcReply,          \* the agent's reply to the latest power RPC
  children,          \* subprocesses started by the agent and still running
  nrpc,              \* number of power RPCs the agent has answered
  ndev,              \* number of devices in the controller's configuration
  spc,               \* Samwise::run position: "running" (devices set up,
                     \* waiting for ctrl_c), "broadcast" (in shutdown,
                     \* shutdown_rx dropped), "closed" (awaiting
                     \* shutdown_tx.closed()), "ok" / "err" (shutdown
                     \* returned), "failed" (ctrl_c gave an error)
  shutdownValue,     \* value held by the shutdown (watch) channel
  task,              \* per device: "none" (not configured), "run" (its task
                     \* runs and owns the handler and its Shutdown),
                     \* "finished" (the task ended and dropped them)
  taskSeen,          \* per device: its Shutdown's receiver has seen the
                     \* latest version of the shutdown channel
  taskShutdown,      \* per device: the field `shutdown` of its Shutdown
  taskRecv           \* per device: what its latest Shutdown::recv returned

vars == <<network_interface, cfg_interface, handles, queue, state, rxSeen, ppc,
          pollRes, hpc, cur, pingRes, plan, log, result, grub, nsub, rejected,
          popped, handled, resp, pubSince, errLogged, req, pingReply,
          packetSource, packetDest, packetBuf, packetRes, idInput, idRes,
          wakeIface, wpc, wakeRes, wakeSent, senders, sendersLock, senderLock,
          agentConfig, rpcReply, children, nrpc, ndev, spc, shutdownValue,
          task, taskSeen, taskShutdown, taskRecv>>

cfgVars == <<network_interface, cfg_interface>>
pollerVars == <<ppc, pollRes>>
clientVars == <<nsub, rejected, resp, req>>
\* State of the parts next to the device core; the device's steps leave it
\* alone.
packetVars == <<packetSource, packetDest, packetBuf, packetRes>>
idVars == <<idInput, idRes>>
wakerVars == <<wakeIface, wpc, wakeRes, wakeSent, senders, sendersLock,
               senderLock>>
agentVars == <<agentConfig, rpcReply, children, nrpc>>
lifecycleVars == <<ndev, spc, shutdownValue, task, taskSeen, taskShutdown,
                 taskRecv>>
sideVars == <<packetVars, idVars, wakerVars, agentVars, lifecycleVars>>
\* State of the device core and of its clients.
deviceVars == <<network_interface, cfg_interface, handles, queue, state, rxSeen,
                ppc, pollRes, hpc, cur, pingRes, plan, log, result, grub, nsub,
                rejected, popped, handled, resp, pubSince, errLogged, req,
                pingReply>>

\* ------------------------------------------------- wake.rs: magic packet
MAGIC_PACKET_SIZE == 116
\* pnet's EthernetPacket: destination at bytes 0..6, source at 6..12,
\* ethertype at 12..14 (big-endian), payload from byte 14 on.
ETHERNET_HEADER_SIZE == 14
\* EtherTypes::WakeOnLan = 0x0842
ETHERTYPE_WAKE_ON_LAN == <<8, 66>>
BROADCAST_BYTES == <<255, 255, 255, 255, 255, 255>>

\* MAC addresses the packet is built for and from.
MacAddrs ==
  { <<170, 187, 204, 221, 238, 255>>,
    <<0, 17, 34, 51, 68, 85>>,
    <<255, 255, 255, 255, 255, 255>> }
\* Lengths and prior content of the buffer the datalink layer hands over.
BufferLengths == {0, 14, 102, 115, 116, 117}
BufferFills == {0, 90}
Buffers == {[i \in 1..n |-> b] : n \in BufferLengths, b \in BufferFills}

\* slice[offset..offset + bytes.len()] = bytes, with offset counted from 0.
CopyAt(slice, offset, bytes) ==
  [i \in 1..Len(slice) |->
     IF i > offset /\ i <= offset + Len(bytes) THEN bytes[i - offset]
     ELSE slice[i]]

\* `for i in 1..17`: one copy of dest at payload offset i * 6.
RECURSIVE RepeatDest(_, _, _, _)
RepeatDest(slice, dest, i, end) ==
  IF i >= end THEN slice
  ELSE RepeatDest(CopyAt(slice, ETHERNET_HEADER_SIZE + i * 6, dest), dest,
                  i + 1, end)

\* Bug variant: the target's address is repeated 15 times.
build_magic_packet_fifteen(source, dest, buf) ==
  IF Len(buf) # MAGIC_PACKET_SIZE
    THEN [ok |-> FALSE, buf |-> buf]
    ELSE LET typed == CopyAt(buf, 12, ETHERTYPE_WAKE_ON_LAN)
             from == CopyAt(typed, 6, source)
             to == CopyAt(from, 0, dest)
             sync == CopyAt(to, ETHERNET_HEADER_SIZE, BROADCAST_BYTES)
         IN [ok |-> TRUE, buf |-> RepeatDest(sync, dest, 1, 16)]

\* build_magic_packet: the length check, then ethertype, source, destination,
\* six bytes of 0xff at the start of the payload and 16 copies of dest.
build_magic_packet(source, dest, buf) ==
  IF Len(buf) # MAGIC_PACKET_SIZE
    THEN [ok |-> FALSE, buf |-> buf]
    ELSE LET typed == CopyAt(buf, 12, ETHERTYPE_WAKE_ON_LAN)
             from == CopyAt(typed, 6, source)
             to == CopyAt(from, 0, dest)
             sync == CopyAt(to, ETHERNET_HEADER_SIZE, BROADCAST_BYTES)
         IN [ok |-> TRUE, buf |-> RepeatDest(sync, dest, 1, 17)]

\* No packet is being built.
PacketIdle ==
  /\ packetSource = <<>>
  /\ packetDest = <<>>
  /\ packetBuf = <<>>
  /\ packetRes = "none"

\* A call of build_magic_packet on the buffer, which it fills in place.
BuildMagicPacket ==
  /\ packetRes = "none"
  /\ LET r == build_magic_packet(packetSource, packetDest, packetBuf) IN
       /\ packetBuf' = r.buf
       /\ packetRes' = IF r.ok THEN "ok" ELSE "err"
  /\ UNCHANGED <<deviceVars, packetSource, packetDest, idVars, wakerVars,
                 agentVars, lifecycleVars>>

\* ---------------------------------------------------- id.rs: DeviceId
\* Longest string handed to DeviceId::new.
MaxIdLength == 3
\* Characters of the strings: letters, a digit, and two that are neither.
Characters == {"a", "Z", "0", "-", "_"}
Alphanumeric == {"a", "Z", "0"}
RECURSIVE StringsUpTo(_)
StringsUpTo(n) ==
  IF n = 0 THEN {<<>>}
  ELSE LET shorter == StringsUpTo(n - 1) IN
         shorter \cup {Append(t, c) : t \in shorter, c \in Characters}
NoId == [ok |-> FALSE, id |-> <<"None">>]

\* DeviceId::new: DeviceId(s.into()), whatever the string.
DeviceId_new(s) == [ok |-> TRUE, id |-> s]

\* No id is being constructed.
IdIdle ==
  /\ idInput = <<>>
  /\ idRes = NoId

\* A call of DeviceId::new, as made by the device filter of the HTTP routes
\* on the path segment and by Configuration::devices on each key.
DeviceIdNew ==
  /\ idRes = NoId
  /\ idRes' = DeviceId_new(idInput)
  /\ UNCHANGED <<deviceVars, packetVars, idInput, wakerVars, agentVars,
                 lifecycleVars>>

\* ------------------------------------------------------ wake.rs: Waker
\* Number of devices whose handlers share the Waker and call wake, each one
\* call at a time.
MaxWakers == 3
Wakers == 1..MaxWakers
NoHolder == 0
\* datalink::interfaces() at Waker::new
interfaces == {"eth0", "eth1"}
\* Names the callers pass: the device's interface or the default one.
InterfaceNames == interfaces \cup {"wlan9"}

\* Bug variant: a name that is not enumerated is taken for an interface.
interface_any(name) == <<"Some", name>>

\* Shared::interface: the enumerated interface of that name, if any.
interface(name) ==
  IF name \in interfaces THEN <<"Some", name>> ELSE <<"None">>

\* Waker::new: no sender is cached, no mutex is held, no call is under way.
WakerIdle ==
  /\ wpc = [w \in Wakers |-> "idle"]
  /\ wakeRes = [w \in Wakers |-> "none"]
  /\ wakeSent = [w \in Wakers |-> FALSE]
  /\ senders = {}
  /\ sendersLock = NoHolder
  /\ senderLock = [i \in interfaces |-> NoHolder]

\* Waker::wake is called and spawn_blocking starts the closure.
WakeCall(w) ==
  /\ wpc[w] = "idle"
  /\ wpc' = [wpc EXCEPT ![w] = "sender"]
  /\ UNCHANGED <<deviceVars, packetVars, idVars, agentVars, lifecycleVars,
                 wakeIface, wakeRes,
                 wakeSent, senders, sendersLock, senderLock>>

\* Bug variant: `senders` is looked up without waiting for its mutex.
SendersNoLock(w) ==
  /\ wpc[w] = "sender"
  /\ sendersLock' = w
  /\ wpc' = [wpc EXCEPT ![w] = "create"]
  /\ UNCHANGED <<deviceVars, packetVars, idVars, agentVars, lifecycleVars,
                 wakeIface, wakeRes,
                 wakeSent, senders, senderLock>>

\* Shared::sender: `self.senders.lock()` is granted.
SendersLock(w) ==
  /\ wpc[w] = "sender"
  /\ sendersLock = NoHolder
  /\ sendersLock' = w
  /\ wpc' = [wpc EXCEPT ![w] = "create"]
  /\ UNCHANGED <<deviceVars, packetVars, idVars, agentVars, lifecycleVars,
                 wakeIface, wakeRes,
                 wakeSent, senders, senderLock>>

\* Bug variant: the guard of `senders` outlives Shared::sender.
Shared_sender_keeps_guard(w) ==
  /\ wpc[w] = "create"
  /\ IF wakeIface[w] \in senders
       THEN /\ wpc' = [wpc EXCEPT ![w] = "lock"]
            /\ UNCHANGED <<sendersLock, wakeRes>>
       ELSE IF interface(wakeIface[w]) = <<"None">>
         THEN /\ wpc' = [wpc EXCEPT ![w] = "done"]
              /\ wakeRes' = [wakeRes EXCEPT ![w] = "NoSuchInterface"]
              /\ sendersLock' = NoHolder
         ELSE /\ wpc' = [wpc EXCEPT ![w] = "open"]
              /\ UNCHANGED <<sendersLock, wakeRes>>
  /\ UNCHANGED <<deviceVars, packetVars, idVars, agentVars, lifecycleVars,
                 wakeIface, wakeSent,
                 senders, senderLock>>

\* Shared::sender under the guard, up to the call of WolSender::new: the
\* cached sender, an error when no interface has that name, or a new
\* WolSender to make for the enumerated interface of that name. The guard is
\* dropped on return, and kept while the sender is made.
Shared_sender(w) ==
  /\ wpc[w] = "create"
  /\ IF wakeIface[w] \in senders
       THEN /\ wpc' = [wpc EXCEPT ![w] = "lock"]
            /\ sendersLock' = NoHolder
            /\ UNCHANGED wakeRes
       ELSE IF interface(wakeIface[w]) = <<"None">>
         THEN /\ wpc' = [wpc EXCEPT ![w] = "done"]
              /\ wakeRes' = [wakeRes EXCEPT ![w] = "NoSuchInterface"]
              /\ sendersLock' = NoHolder
         ELSE /\ wpc' = [wpc EXCEPT ![w] = "open"]
              /\ UNCHANGED <<sendersLock, wakeRes>>
  /\ UNCHANGED <<deviceVars, packetVars, idVars, agentVars, lifecycleVars,
                 wakeIface, wakeSent,
                 senders, senderLock>>

\* The rest of Shared::sender, still under the guard: WolSender::new returns
\* (it fails when the channel cannot be opened or the interface has no MAC
\* address); a sender that was made is inserted into `senders`, a failure
\* returns through `?` and caches nothing. The guard is dropped on return.
WolSender_new(w) ==
  /\ wpc[w] = "open"
  /\ sendersLock' = NoHolder
  /\ \/ /\ senders' = senders \cup {wakeIface[w]}
        /\ wpc' = [wpc EXCEPT ![w] = "lock"]
        /\ UNCHANGED wakeRes
     \/ /\ wpc' = [wpc EXCEPT ![w] = "done"]
        /\ wakeRes' = [wakeRes EXCEPT ![w] = "OpenFailed"]
        /\ UNCHANGED senders
  /\ UNCHANGED <<deviceVars, packetVars, idVars, agentVars, lifecycleVars,
                 wakeIface, wakeSent,
                 senderLock>>

\* Bug variant: the sender is used without waiting for its mutex.
SenderLockNoWait(w) ==
  /\ wpc[w] = "lock"
  /\ senderLock' = [senderLock EXCEPT ![wakeIface[w]] = w]
  /\ wpc' = [wpc EXCEPT ![w] = "send"]
  /\ UNCHANGED <<deviceVars, packetVars, idVars, agentVars, lifecycleVars,
                 wakeIface, wakeRes,
                 wakeSent, senders, sendersLock>>

\* Waker::wake: `sender_mutex.lock()` is granted.
SenderLock(w) ==
  /\ wpc[w] = "lock"
  /\ senderLock[wakeIface[w]] = NoHolder
  /\ senderLock' = [senderLock EXCEPT ![wakeIface[w]] = w]
  /\ wpc' = [wpc EXCEPT ![w] = "send"]
  /\ UNCHANGED <<deviceVars, packetVars, idVars, agentVars, lifecycleVars,
                 wakeIface, wakeRes,
                 wakeSent, senders, sendersLock>>

\* WolSender::send_magic_packet returns: build_and_send handed the packet to
\* the datalink, or gave no buffer or an error; the closure ends and drops
\* the sender's guard.
SendMagicPacket(w) ==
  /\ wpc[w] = "send"
  /\ \E ok \in BOOLEAN :
       /\ wakeSent' = [wakeSent EXCEPT ![w] = ok]
       /\ wakeRes' = [wakeRes EXCEPT ![w] = IF ok THEN "ok" ELSE "SendFailed"]
  /\ senderLock' = [i \in interfaces |->
                      IF senderLock[i] = w THEN NoHolder ELSE senderLock[i]]
  /\ wpc' = [wpc EXCEPT ![w] = "done"]
  /\ UNCHANGED <<deviceVars, packetVars, idVars, agentVars, lifecycleVars,
                 wakeIface, senders,
                 sendersLock>>

\* The caller takes the result of wake and is free to call again.
WakeReturn(w) ==
  /\ wpc[w] = "done"
  /\ wpc' = [wpc EXCEPT ![w] = "idle"]
  /\ wakeRes' = [wakeRes EXCEPT ![w] = "none"]
  /\ wakeSent' = [wakeSent EXCEPT ![w] = FALSE]
  /\ UNCHANGED <<deviceVars, packetVars, idVars, agentVars, lifecycleVars,
                 wakeIface, senders,
                 sendersLock, senderLock>>

\* ------------------------------------------------- agent/src/main.rs
\* Number of power RPCs the agent is sent.
MaxRpcs == 3
PowerMethods == {"reboot", "shut_down", "suspend"}
\* Option<Vec<String>>: unset, set to an empty command line, set to one that
\* names a program.
NoCommand == <<"None">>
Commands == {NoCommand, <<"Some", <<>>>>, <<"Some", <<"systemctl", "reboot">>>>}
NoRpc == [method |-> "", code |-> ""]

\* Bug variant: an empty command line counts as done.
spawn_empty_ok(command, started) ==
  IF command = <<>> THEN "Ok"
  ELSE IF ~started THEN "Internal" ELSE "Ok"

\* AgentImpl::spawn: Unimplemented for an empty command line; otherwise
\* Command::spawn, which starts the process or fails, and is not waited for.
spawn(command, started) ==
  IF command = <<>> THEN "Unimplemented"
  ELSE IF ~started THEN "Internal" ELSE "Ok"

\* The agent as configured, before any power RPC.
AgentIdle ==
  /\ rpcReply = NoRpc
  /\ children = 0
  /\ nrpc = 0

\* reboot, shut_down and suspend: Unimplemented when the command is unset,
\* else what spawn gives, the empty response when that is Ok. A subprocess
\* runs on once Command::spawn has started it.
PowerRpc(method) ==
  /\ nrpc < MaxRpcs
  /\ nrpc' = nrpc + 1
  /\ LET command == agentConfig[method] IN
       IF command = NoCommand
         THEN /\ rpcReply' = [method |-> method, code |-> "Unimplemented"]
              /\ UNCHANGED children
         ELSE \E started \in BOOLEAN :
                /\ rpcReply' = [method |-> method,
                                code |-> spawn(command[2], started)]
                /\ children' = IF command[2] # <<>> /\ started
                                 THEN children + 1 ELSE children
  /\ UNCHANGED <<deviceVars, packetVars, idVars, wakerVars, lifecycleVars,
                 agentConfig>>

\* A subprocess of the agent ends.
ChildExit ==
  /\ children > 0
  /\ children' = children - 1
  /\ UNCHANGED <<deviceVars, packetVars, idVars, wakerVars, lifecycleVars,
                 agentConfig, rpcReply, nrpc>>

\* ------------------------------------- main.rs, shutdown.rs: lifecycle
\* Largest number of configured devices.
MaxDevices == 3
Tasks == 1..MaxDevices
othersVars == <<deviceVars, packetVars, idVars, wakerVars, agentVars>>

\* Samwise::new and setup_devices with n configured devices: the channel
\* holds false, and each device's task owns a Shutdown made from a clone of
\* shutdown_rx, which has seen no version yet.
Lifecycle(n) ==
  /\ ndev = n
  /\ spc = "running"
  /\ shutdownValue = FALSE
  /\ task = [d \in Tasks |-> IF d <= n THEN "run" ELSE "none"]
  /\ taskSeen = [d \in Tasks |-> FALSE]
  /\ taskShutdown = [d \in Tasks |-> FALSE]
  /\ taskRecv = [d \in Tasks |-> "none"]

\* Receivers of the shutdown channel: Samwise.shutdown_rx until shutdown()
\* drops it, and one per running device task.
ShutdownReceivers ==
  (IF spc = "running" THEN 1 ELSE 0)
    + Cardinality({d \in Tasks : task[d] = "run"})

\* What Shutdown::recv returns, as kept in taskRecv.
Returned(v) == IF v THEN "true" ELSE "false"

\* Bug variant: the None of a dropped sender is answered true without setting
\* the flag.
ShutdownRecvNoneUnlatched(d) ==
  /\ task[d] = "run"
  /\ IF taskShutdown[d]
       THEN /\ taskRecv' = [taskRecv EXCEPT ![d] = Returned(TRUE)]
            /\ UNCHANGED <<taskSeen, taskShutdown>>
       ELSE \/ /\ ~taskSeen[d]
               /\ taskSeen' = [taskSeen EXCEPT ![d] = TRUE]
               /\ taskShutdown' = [taskShutdown EXCEPT ![d] = shutdownValue]
               /\ taskRecv' = [taskRecv EXCEPT ![d] = Returned(shutdownValue)]
            \/ /\ taskSeen[d]
               /\ spc \in {"ok", "err", "failed"}
               /\ taskRecv' = [taskRecv EXCEPT ![d] = Returned(TRUE)]
               /\ UNCHANGED <<taskSeen, taskShutdown>>
  /\ UNCHANGED <<othersVars, ndev, spc, shutdownValue, task>>

\* Shutdown::recv in a device task: true at once when the flag is set, with
\* the receiver left alone; else the receiver yields the value it has not
\* seen yet, which becomes the flag and the result, or it yields None because
\* shutdown_tx is gone, and the flag is set and the result is true. With the
\* latest value seen and the sender alive the call is pending.
ShutdownRecv(d) ==
  /\ task[d] = "run"
  /\ IF taskShutdown[d]
       THEN /\ taskRecv' = [taskRecv EXCEPT ![d] = Returned(TRUE)]
            /\ UNCHANGED <<taskSeen, taskShutdown>>
       ELSE \/ /\ ~taskSeen[d]
               /\ taskSeen' = [taskSeen EXCEPT ![d] = TRUE]
               /\ taskShutdown' = [taskShutdown EXCEPT ![d] = shutdownValue]
               /\ taskRecv' = [taskRecv EXCEPT ![d] = Returned(shutdownValue)]
            \/ /\ taskSeen[d]
               /\ spc \in {"ok", "err", "failed"}
               /\ taskShutdown' = [taskShutdown EXCEPT ![d] = TRUE]
               /\ taskRecv' = [taskRecv EXCEPT ![d] = Returned(TRUE)]
               /\ UNCHANGED taskSeen
  /\ UNCHANGED <<othersVars, ndev, spc, shutdownValue, task>>

\* handler.run() returns, with Ok or with the error that is logged as
\* "Device .. failed": the spawned task ends and drops the handler with its
\* Shutdown.
TaskFinish(d) ==
  /\ task[d] = "run"
  /\ task' = [task EXCEPT ![d] = "finished"]
  /\ UNCHANGED <<othersVars, ndev, spc, shutdownValue, taskSeen, taskShutdown,
                 taskRecv>>

\* signal::ctrl_c() gave an error, which run returns: the Samwise value is
\* dropped, shutdown_tx and shutdown_rx with it.
RunFails ==
  /\ spc = "running"
  /\ spc' = "failed"
  /\ UNCHANGED <<othersVars, ndev, shutdownValue, task, taskSeen, taskShutdown,
                 taskRecv>>

\* ctrl_c() returned and Samwise::shutdown dropped its own receiver.
ShutdownStart ==
  /\ spc = "running"
  /\ spc' = "broadcast"
  /\ UNCHANGED <<othersVars, ndev, shutdownValue, task, taskSeen, taskShutdown,
                 taskRecv>>

\* shutdown_tx.broadcast(true): an error, which shutdown returns, when no
\* receiver is left; else the value is replaced and unseen by every receiver.
ShutdownBroadcast ==
  /\ spc = "broadcast"
  /\ IF ShutdownReceivers = 0
       THEN /\ spc' = "err"
            /\ UNCHANGED <<shutdownValue, taskSeen>>
       ELSE /\ spc' = "closed"
            /\ shutdownValue' = TRUE
            /\ taskSeen' = [d \in Tasks |-> FALSE]
  /\ UNCHANGED <<othersVars, ndev, task, taskShutdown, taskRecv>>

\* Bug variant: shutdown returns without awaiting closed().
ShutdownClosedNoWait ==
  /\ spc = "closed"
  /\ spc' = "ok"
  /\ UNCHANGED <<othersVars, ndev, shutdownValue, task, taskSeen, taskShutdown,
                 taskRecv>>

\* shutdown_tx.closed().await completes, once every receiver is dropped, and
\* shutdown returns Ok.
ShutdownClosed ==
  /\ spc = "closed"
  /\ ShutdownReceivers = 0
  /\ spc' = "ok"
  /\ UNCHANGED <<othersVars, ndev, shutdownValue, task, taskSeen, taskShutdown,
                 taskRecv>>

\* The parts next to the device core at rest.
SideStart ==
  /\ PacketIdle
  /\ IdIdle
  /\ WakerIdle
  /\ wakeIface = [w \in Wakers |-> default_interface]
  /\ AgentIdle
  /\ agentConfig = [m \in PowerMethods |-> NoCommand]
  /\ Lifecycle(1)

\* The file exists before the controller touches it; its old content.
GrubInitial == <<"initial">>
\* The file after open(write, truncate) and before (or without) the write.
GrubTruncated == <<>>

NoMessage == [id |-> 0, action |-> <<"None">>]
NoResponse == [status |-> 0, success |-> FALSE, device |-> "", error |-> <<>>]

\* Bug variant: the device's interface override is ignored.
InterfaceForAlwaysDefault(override) == default_interface

\* device_config.interface().unwrap_or_else(|| config.default_interface())
InterfaceFor(override) ==
  IF override # "" THEN override ELSE default_interface

\* ------------------------------------------------------------- Device::start
Start ==
  /\ cfg_interface \in InterfaceOptions
  /\ network_interface = InterfaceFor(cfg_interface)
  /\ handles = 1
  /\ queue = <<>>
  /\ state = Unknown
  /\ rxSeen = FALSE
  /\ ppc = "select"
  /\ pollRes = NoStatus
  /\ hpc = "recv"
  /\ cur = NoMessage
  /\ pingRes = NoStatus
  /\ plan = <<>>
  /\ log = <<>>
  /\ result = "none"
  /\ grub = GrubInitial
  /\ nsub = 0
  /\ rejected = {}
  /\ popped = <<>>
  /\ handled = <<>>
  /\ resp = NoResponse
  /\ pubSince = FALSE
  /\ errLogged = FALSE
  /\ req = ""

\* The device right after Device::start; the agent's replies are not fixed
\* ahead.
Init ==
  /\ Start
  /\ pingReply = NoReply
  /\ SideStart

\* ------------------------------------------------------------ state poller
\* Bug variant: the Handler holds no receiver of its own.
ReceiversOfHandlesOnly == handles

\* Bug variant: the Handler's receiver is not released when its task ends.
ReceiversHandlerLeaked == handles + 1

\* Number of watch::Receiver<State> alive: one per Device handle, one held by
\* the Handler (its clones in await_state die before the Handler does).
Receivers == handles + (IF hpc # "exited" THEN 1 ELSE 0)

\* Bug variant: an agent that does not answer is reported as Unknown.
StateOfUnknownWhenInactive(status) ==
  IF status[1] = "Active" THEN Running(status[2]) ELSE Unknown

\* The poller's mapping of a ping result to a State.
StateOf(status) ==
  IF status[1] = "Active" THEN Running(status[2]) ELSE Off

\* Bug variant: the tick publishes the state of the ping before this one.
PollerTickOnStale(reply) ==
  /\ ppc = "select"
  /\ pollRes' = ping(reply)
  /\ IF Receivers = 0
       THEN /\ ppc' = "exited"
            /\ UNCHANGED <<state, rxSeen>>
       ELSE /\ ppc' = "select"
            /\ state' = IF pollRes = NoStatus THEN Unknown ELSE StateOf(pollRes)
            /\ rxSeen' = FALSE
  /\ UNCHANGED <<cfgVars, handles, queue, hpc, cur, pingRes, plan, log, result,
                 grub, clientVars, popped, handled, pubSince, errLogged>>

\* select! arm `tick.tick()`: the interval fired, agent.ping().await returned
\* r, and state_tx.broadcast(state) ran. The broadcast fails, and ends the
\* task, when no receiver is left; otherwise it overwrites the value and makes
\* it unseen by every receiver. The reply r is not constrained by anything
\* that happens while the ping is under way, so the arm is one step.
PollerTickOn(reply) ==
  /\ ppc = "select"
  /\ LET r == ping(reply) IN
       /\ pollRes' = r
       /\ IF Receivers = 0
            THEN /\ ppc' = "exited"
                 /\ UNCHANGED <<state, rxSeen>>
            ELSE /\ ppc' = "select"
                 /\ state' = StateOf(r)
                 /\ rxSeen' = FALSE
  /\ pubSince' = (IF Receivers # 0 /\ hpc \in {"run", "await"} /\ log # <<>>
                     /\ log[Len(log)].op \in TransportOps \cup AwaitOps
                   THEN TRUE ELSE pubSince)
  /\ UNCHANGED <<cfgVars, handles, queue, hpc, cur, pingRes, plan, log, result,
                 grub, clientVars, popped, handled, errLogged>>

\* The tick, with whatever the agent replies.
PollerTick ==
  /\ \E reply \in AgentReplies : PollerTickOn(reply)
  /\ UNCHANGED <<pingReply, sideVars>>

\* The tick, with the agent's reply fixed ahead of the call; the reply to the
\* next call is then fixed in turn.
PollerTickFixed ==
  /\ pingReply # NoReply
  /\ PollerTickOn(pingReply)
  /\ pingReply' \in PingReplies
  /\ UNCHANGED sideVars

\* select! arm `state_tx.closed()`: every receiver is gone.
PollerClosed ==
  /\ ppc = "select"
  /\ Receivers = 0
  /\ ppc' = "exited"
  /\ UNCHANGED <<cfgVars, handles, queue, state, rxSeen, pollRes, hpc, cur,
                 pingRes, plan, log, result, grub, clientVars, popped, handled,
                 pubSince, errLogged, pingReply,
                 sideVars>>

\* The poller's task panics: the runtime drops the task, and state_tx with
\* it, while receivers are alive. Device::start discards the JoinHandle, so
\* nothing else notices.
PollerPanics ==
  /\ ppc = "select"
  /\ Receivers > 0
  /\ ppc' = "exited"
  /\ UNCHANGED <<cfgVars, handles, queue, state, rxSeen, pollRes, hpc, cur,
                 pingRes, plan, log, result, grub, clientVars, popped, handled,
                 pubSince, errLogged, pingReply, sideVars>>

\* ------------------------------------------------- Device handle and HTTP
\* Bug variant: the buffer takes one message more than its capacity.
try_send_one_more(q, rxClosed, m) ==
  IF rxClosed THEN [ok |-> FALSE, err |-> "Closed", q |-> q]
  ELSE IF Len(q) > ACTION_CAPACITY THEN [ok |-> FALSE, err |-> "Full", q |-> q]
  ELSE [ok |-> TRUE, err |-> "", q |-> Append(q, m)]

\* Bug variant: a send that finds the buffer full overwrites what is queued.
try_send_overwrites(q, rxClosed, m) ==
  IF rxClosed THEN [ok |-> FALSE, err |-> "Closed", q |-> q]
  ELSE IF Len(q) >= ACTION_CAPACITY THEN [ok |-> TRUE, err |-> "", q |-> <<m>>]
  ELSE [ok |-> TRUE, err |-> "", q |-> Append(q, m)]

\* Bug variant: the send does not fail when the buffer is full.
try_send_unbounded(q, rxClosed, m) ==
  IF rxClosed THEN [ok |-> FALSE, err |-> "Closed", q |-> q]
  ELSE [ok |-> TRUE, err |-> "", q |-> Append(q, m)]

\* mpsc::Sender::try_send on the action channel.
try_send(q, rxClosed, m) ==
  IF rxClosed THEN [ok |-> FALSE, err |-> "Closed", q |-> q]
  ELSE IF Len(q) >= ACTION_CAPACITY THEN [ok |-> FALSE, err |-> "Full", q |-> q]
  ELSE [ok |-> TRUE, err |-> "", q |-> Append(q, m)]

\* Device::action: the try_send, with the error given its context.
DeviceAction(q, rxClosed, m) ==
  LET r == try_send(q, rxClosed, m) IN
    [ok |-> r.ok,
     error |-> IF r.ok THEN <<>>
               ELSE <<"Could not send action to device", DEVICE_ID, r.err>>,
     q |-> r.q]

\* action_success: the reply to an accepted action (its "action" text, the
\* Display form of the action, is left out)
action_success ==
  [status |-> STATUS_OK, success |-> TRUE, device |-> DEVICE_ID,
   error |-> <<>>]

\* action_failure followed by handle_error's ActionFailed arm
action_failure(error) ==
  [status |-> STATUS_SERVICE_UNAVAILABLE, success |-> FALSE, device |-> "",
   error |-> <<"Operation on", DEVICE_ID, "failed:">> \o error]

\* Bug variant: handle_error has no arm for the not-found rejection.
handle_error_no_not_found(rejection) ==
  IF rejection[1] = "ActionFailed"
    THEN [status |-> STATUS_SERVICE_UNAVAILABLE, success |-> FALSE,
          device |-> "",
          error |-> <<"Operation on", rejection[2], "failed:">> \o rejection[3]]
  ELSE IF rejection[1] = "MethodNotAllowed"
    THEN [status |-> STATUS_METHOD_NOT_ALLOWED, success |-> FALSE,
          device |-> "", error |-> <<"HTTP method not allowed">>]
  ELSE [status |-> STATUS_INTERNAL_SERVER_ERROR, success |-> FALSE,
        device |-> "", error |-> <<"Internal error">>]

\* handle_error: the reply (status and ErrorResponse body) to a rejection.
handle_error(rejection) ==
  IF rejection[1] = "NotFound"
    THEN [status |-> STATUS_NOT_FOUND, success |-> FALSE, device |-> "",
          error |-> <<"Not found">>]
  ELSE IF rejection[1] = "ActionFailed"
    THEN [status |-> STATUS_SERVICE_UNAVAILABLE, success |-> FALSE,
          device |-> "",
          error |-> <<"Operation on", rejection[2], "failed:">> \o rejection[3]]
  ELSE IF rejection[1] = "MethodNotAllowed"
    THEN [status |-> STATUS_METHOD_NOT_ALLOWED, success |-> FALSE,
          device |-> "", error |-> <<"HTTP method not allowed">>]
  ELSE [status |-> STATUS_INTERNAL_SERVER_ERROR, success |-> FALSE,
        device |-> "", error |-> <<"Internal error">>]

\* The `device` filter, the base of every route under /device/{id}/: the id
\* is looked up in the device map before the rest of the path, the method or
\* the body is looked at, and an id that is not a key is rejected as not
\* found, which handle_error turns into the reply; no route body runs, so no
\* Device is cloned, asked for its state or sent an action.
ServeUnknownDevice(id, route) ==
  /\ handles > 0
  /\ id \notin Devices
  /\ resp' = handle_error(<<"NotFound">>)
  /\ req' = id
  /\ UNCHANGED <<cfgVars, handles, queue, state, rxSeen, pollerVars, hpc, cur,
                 pingRes, plan, log, result, grub, nsub, rejected, popped,
                 handled, pubSince, errLogged,
                 pingReply,
                 sideVars>>

\* Bug variant: the run route looks the target up and rejects an unknown one
\* without submitting it.
ServeActionValidatesTarget(a) ==
  /\ handles > 0
  /\ nsub < MaxSubmissions
  /\ nsub' = nsub + 1
  /\ LET known == a[1] = "Run" => a[2] \in DOMAIN targets
         r == IF known
                THEN DeviceAction(queue, hpc = "exited",
                                  [id |-> nsub + 1, action |-> a])
                ELSE [ok |-> FALSE, error |-> <<"No such target", a[2]>>,
                      q |-> queue] IN
       /\ queue' = r.q
       /\ rejected' = (IF r.ok THEN rejected ELSE rejected \cup {nsub + 1})
       /\ resp' = (IF r.ok THEN action_success ELSE action_failure(r.error))
       /\ req' = ""
  /\ UNCHANGED <<cfgVars, handles, state, rxSeen, pollerVars, hpc, cur,
                 pingRes, plan, log, result, grub, popped, handled,
                 pubSince, errLogged, pingReply,
                 sideVars>>

\* One request to an action route (suspend, shutdown, reboot, run) of an
\* existing device: the route clones the Device of the map, calls
\* device.action(a), replies and drops its clone.
ServeAction(a) ==
  /\ handles > 0
  /\ nsub < MaxSubmissions
  /\ nsub' = nsub + 1
  /\ LET r == DeviceAction(queue, hpc = "exited",
                           [id |-> nsub + 1, action |-> a]) IN
       /\ queue' = r.q
       /\ rejected' = (IF r.ok THEN rejected ELSE rejected \cup {nsub + 1})
       /\ resp' = (IF r.ok THEN action_success ELSE action_failure(r.error))
       /\ req' = ""
  /\ UNCHANGED <<cfgVars, handles, state, rxSeen, pollerVars, hpc, cur,
                 pingRes, plan, log, result, grub, popped, handled,
                 pubSince, errLogged, pingReply,
                 sideVars>>

\* The device map, and with it the last Device handle, is dropped.
DropHandle ==
  /\ handles > 0
  /\ handles' = handles - 1
  /\ UNCHANGED <<cfgVars, queue, state, rxSeen, pollerVars, hpc, cur, pingRes,
                 plan, log, result, grub, clientVars, popped, handled,
                 pubSince, errLogged, pingReply,
                 sideVars>>

\* ----------------------------------------------------------- action handler
Step(op, arg) == [op |-> op, arg |-> arg]

\* Bug variant: the reboot arm forgets to configure the target.
handle_run_reboot_unconfigured(target, status) ==
  IF status[1] = "Active"
    THEN IF status[2] = target
           THEN <<>>
           ELSE <<Step("reboot", <<>>),
                  Step("await_running_target", <<target>>)>>
    ELSE <<Step("configure", <<target>>), Step("boot", <<>>),
           Step("await_running_target", <<target>>)>>

\* Bug variant: the running target is not compared with the requested one.
handle_run_no_compare(target, status) ==
  IF status[1] = "Active"
    THEN <<Step("configure", <<target>>), Step("reboot", <<>>),
           Step("await_running_target", <<target>>)>>
    ELSE <<Step("configure", <<target>>), Step("boot", <<>>),
           Step("await_running_target", <<target>>)>>

\* Bug variant: a running device is woken instead of rebooted.
handle_run_wake_when_active(target, status) ==
  IF status[1] = "Active" /\ status[2] = target
    THEN <<>>
    ELSE <<Step("configure", <<target>>), Step("boot", <<>>),
           Step("await_running_target", <<target>>)>>

\* Handler::handle_run: what follows the ping, in order.
handle_run(target, status) ==
  IF status[1] = "Active"
    THEN IF status[2] = target
           THEN <<>>
           ELSE <<Step("configure", <<target>>), Step("reboot", <<>>),
                  Step("await_running_target", <<target>>)>>
    ELSE <<Step("configure", <<target>>), Step("boot", <<>>),
           Step("await_running_target", <<target>>)>>

\* Handler::handle_reboot
handle_reboot(status) ==
  IF status[1] = "Active"
    THEN <<Step("reboot", <<>>), Step("await_running_target", <<status[2]>>)>>
    ELSE <<Step("boot", <<>>), Step("await_running", <<>>)>>

\* Bug variant: the suspend RPC is sent whatever the ping said.
handle_suspend_always(status) ==
  <<Step("suspend", <<>>), Step("await_off", <<>>)>>

\* Handler::handle_suspend
handle_suspend(status) ==
  IF status[1] = "Active"
    THEN <<Step("suspend", <<>>), Step("await_off", <<>>)>>
    ELSE <<>>

\* Bug variant: the shutdown arm sends the suspend RPC.
handle_shutdown_suspends(status) ==
  IF status[1] = "Active"
    THEN <<Step("suspend", <<>>), Step("await_off", <<>>)>>
    ELSE <<>>

\* Handler::handle_shutdown
handle_shutdown(status) ==
  IF status[1] = "Active"
    THEN <<Step("shut_down", <<>>), Step("await_off", <<>>)>>
    ELSE <<>>

\* Bug variant: the handle_* functions decide on the value cached in the
\* state channel, not on the result of their own ping.
DispatchOnCachedState(a, status) ==
  LET cached == IF state[1] = "Running" THEN Active(state[2]) ELSE Inactive IN
    CASE a[1] = "Run" -> handle_run(a[2], cached)
      [] a[1] = "Reboot" -> handle_reboot(cached)
      [] a[1] = "Suspend" -> handle_suspend(cached)
      [] a[1] = "ShutDown" -> handle_shutdown(cached)

\* The match of Handler::process on the popped action.
Dispatch(a, status) ==
  CASE a[1] = "Run" -> handle_run(a[2], status)
    [] a[1] = "Reboot" -> handle_reboot(status)
    [] a[1] = "Suspend" -> handle_suspend(status)
    [] a[1] = "ShutDown" -> handle_shutdown(status)

\* The predicates of await_running_target, await_running and await_off.
AwaitPred(step, s) ==
  CASE step.op = "await_running_target" -> s = Running(step.arg[1])
    [] step.op = "await_running" -> s[1] = "Running"
    [] step.op = "await_off" -> s = Off

\* The bytes configure writes for a menu entry.
config_contents(menu_entry) ==
  <<"set ", GRUB_MENU_ENTRY_VAR, "=\"", menu_entry, "\"\n",
    "export ", GRUB_MENU_ENTRY_VAR, "\n">>

Entry(op, arg, ok) == [id |-> cur.id, op |-> op, arg |-> arg, ok |-> ok]

\* The handle_* function returns r to Handler::process.
Finish(r) ==
  /\ hpc' = "return"
  /\ plan' = <<>>
  /\ result' = r

\* Bug variant: the next message is popped without waiting for the handle_*
\* call of the previous one to return.
HandlerRecvWhileBusy ==
  /\ hpc # "exited"
  /\ queue # <<>>
  /\ cur' = Head(queue)
  /\ queue' = Tail(queue)
  /\ popped' = Append(popped, Head(queue).id)
  /\ hpc' = "ping"
  /\ plan' = <<>>
  /\ log' = <<>>
  /\ result' = "none"
  /\ pingRes' = NoStatus
  /\ UNCHANGED <<cfgVars, handles, state, rxSeen, pollerVars, grub,
                 clientVars, handled,
                 pubSince, errLogged, pingReply,
                 sideVars>>

\* `while let Some(action) = self.action_rx.recv().await`: a message is popped.
HandlerRecv ==
  /\ hpc = "recv"
  /\ queue # <<>>
  /\ cur' = Head(queue)
  /\ queue' = Tail(queue)
  /\ popped' = Append(popped, Head(queue).id)
  /\ hpc' = "ping"
  /\ plan' = <<>>
  /\ log' = <<>>
  /\ result' = "none"
  /\ pingRes' = NoStatus
  /\ UNCHANGED <<cfgVars, handles, state, rxSeen, pollerVars, grub,
                 clientVars, handled,
                 pubSince, errLogged, pingReply,
                 sideVars>>

\* Bug variant: the Err of handle_* is propagated (`?`) out of
\* Handler::process, which ends the task.
HandlerReturnExitOnError ==
  /\ hpc = "return"
  /\ hpc' = (IF result = "ok" THEN "recv" ELSE "exited")
  /\ handled' = Append(handled, cur.id)
  /\ cur' = NoMessage
  /\ pingRes' = NoStatus
  /\ log' = <<>>
  /\ result' = "none"
  /\ pubSince' = FALSE
  /\ errLogged' = (result # "ok")
  /\ UNCHANGED <<cfgVars, handles, queue, state, rxSeen, pollerVars, plan,
                 grub, clientVars, popped,
                 pingReply,
                 sideVars>>

\* Bug variant: the Err of handle_* is turned into the reply to the request
\* that submitted the action.
HandlerReturnReportsFailure ==
  /\ hpc = "return"
  /\ hpc' = "recv"
  /\ handled' = Append(handled, cur.id)
  /\ cur' = NoMessage
  /\ pingRes' = NoStatus
  /\ log' = <<>>
  /\ result' = "none"
  /\ pubSince' = FALSE
  /\ errLogged' = (result # "ok")
  /\ resp' = (IF result = "ok" THEN resp ELSE action_failure(<<result>>))
  /\ UNCHANGED <<cfgVars, handles, queue, state, rxSeen, pollerVars, plan,
                 grub, nsub, rejected, req, popped,
                 pingReply,
                 sideVars>>

\* Back in Handler::process: an Err is logged, and the loop goes back to
\* action_rx.recv(); the action and what was kept for it are gone.
HandlerReturn ==
  /\ hpc = "return"
  /\ hpc' = "recv"
  /\ handled' = Append(handled, cur.id)
  /\ cur' = NoMessage
  /\ pingRes' = NoStatus
  /\ log' = <<>>
  /\ result' = "none"
  /\ pubSince' = FALSE
  /\ errLogged' = (result # "ok")
  /\ UNCHANGED <<cfgVars, handles, queue, state, rxSeen, pollerVars, plan,
                 grub, clientVars, popped,
                 pingReply,
                 sideVars>>

\* Bug variant: the handler stops as soon as every sender is gone, leaving
\* what is queued.
HandlerClosedDropsQueue ==
  /\ hpc = "recv"
  /\ handles = 0
  /\ hpc' = "exited"
  /\ UNCHANGED <<cfgVars, handles, queue, state, rxSeen, pollerVars, cur,
                 pingRes, plan, log, result, grub, clientVars, popped, handled,
                 pubSince, errLogged, pingReply,
                 sideVars>>

\* recv() returns None: every Sender is dropped and nothing is queued.
HandlerClosed ==
  /\ hpc = "recv"
  /\ queue = <<>>
  /\ handles = 0
  /\ hpc' = "exited"
  /\ UNCHANGED <<cfgVars, handles, queue, state, rxSeen, pollerVars, cur,
                 pingRes, plan, log, result, grub, clientVars, popped, handled,
                 pubSince, errLogged, pingReply,
                 sideVars>>

\* The first statement of every handle_*: self.agent.ping().await, and the
\* match on its result; a no-op arm returns Ok(()) at once.
HandlerPing ==
  /\ hpc = "ping"
  /\ \E reply \in AgentReplies :
       LET r == ping(reply) IN
         /\ pingRes' = r
         /\ log' = Append(log, Entry("ping", <<>>, TRUE))
         /\ IF Dispatch(cur.action, r) = <<>>
              THEN Finish("ok")
              ELSE /\ hpc' = "run"
                   /\ plan' = Dispatch(cur.action, r)
                   /\ UNCHANGED result
  /\ UNCHANGED <<cfgVars, handles, queue, state, rxSeen, pollerVars, cur, grub,
                 clientVars, popped, handled,
                 pubSince, errLogged, pingReply,
                 sideVars>>

\* Bug variant: the file is opened, and so truncated, before the target is
\* looked up.
HandlerConfigureOpensFirst ==
  /\ hpc = "run"
  /\ plan # <<>>
  /\ Head(plan).op = "configure"
  /\ LET t == Head(plan).arg[1] IN
       IF t \notin DOMAIN targets
         THEN /\ log' = Append(log, Entry("configure", <<t>>, FALSE))
              /\ grub' = GrubTruncated
              /\ Finish("UnknownTarget")
         ELSE \E outcome \in {"ok", "OpenFailed", "WriteFailed"} :
                /\ log' = Append(log, Entry("configure", <<t>>, outcome = "ok"))
                /\ grub' = CASE outcome = "ok" -> config_contents(targets[t])
                             [] outcome = "OpenFailed" -> grub
                             [] outcome = "WriteFailed" -> GrubTruncated
                /\ IF outcome = "ok"
                     THEN /\ plan' = Tail(plan)
                          /\ UNCHANGED <<hpc, result>>
                     ELSE Finish(outcome)
  /\ UNCHANGED <<cfgVars, handles, queue, state, rxSeen, pollerVars, cur,
                 pingRes, clientVars, popped, handled,
                 pubSince, errLogged, pingReply,
                 sideVars>>

\* Handler::configure: unknown target bails before the file is opened; the
\* open (write, truncate, no create) or the write can fail.
HandlerConfigure ==
  /\ hpc = "run"
  /\ plan # <<>>
  /\ Head(plan).op = "configure"
  /\ LET t == Head(plan).arg[1] IN
       IF t \notin DOMAIN targets
         THEN /\ log' = Append(log, Entry("configure", <<t>>, FALSE))
              /\ grub' = grub
              /\ Finish("UnknownTarget")
         ELSE \E outcome \in {"ok", "OpenFailed", "WriteFailed"} :
                /\ log' = Append(log, Entry("configure", <<t>>, outcome = "ok"))
                /\ grub' = CASE outcome = "ok" -> config_contents(targets[t])
                             [] outcome = "OpenFailed" -> grub
                             [] outcome = "WriteFailed" -> GrubTruncated
                /\ IF outcome = "ok"
                     THEN /\ plan' = Tail(plan)
                          /\ UNCHANGED <<hpc, result>>
                     ELSE Finish(outcome)
  /\ UNCHANGED <<cfgVars, handles, queue, state, rxSeen, pollerVars, cur,
                 pingRes, clientVars, popped, handled,
                 pubSince, errLogged, pingReply,
                 sideVars>>

\* Bug variant: a failed wake puts the old content of the file back.
HandlerBootRollsBack ==
  /\ hpc = "run"
  /\ plan # <<>>
  /\ Head(plan).op = "boot"
  /\ \E sent \in BOOLEAN :
       /\ log' = Append(log, Entry("boot", <<network_interface, mac_address>>,
                                   sent))
       /\ IF sent
            THEN /\ plan' = Tail(plan)
                 /\ UNCHANGED <<hpc, result, grub>>
            ELSE /\ Finish("WakeFailed")
                 /\ grub' = GrubInitial
  /\ pubSince' = FALSE
  /\ UNCHANGED <<cfgVars, handles, queue, state, rxSeen, pollerVars, cur,
                 pingRes, clientVars, popped, handled, errLogged,
                 pingReply,
                 sideVars>>

\* Handler::boot: self.waker.wake(network_interface, mac_address).await
HandlerBoot ==
  /\ hpc = "run"
  /\ plan # <<>>
  /\ Head(plan).op = "boot"
  /\ \E sent \in BOOLEAN :
       /\ log' = Append(log, Entry("boot", <<network_interface, mac_address>>,
                                   sent))
       /\ IF sent
            THEN /\ plan' = Tail(plan)
                 /\ UNCHANGED <<hpc, result>>
            ELSE Finish("WakeFailed")
  /\ pubSince' = FALSE
  /\ UNCHANGED <<cfgVars, handles, queue, state, rxSeen, pollerVars, cur,
                 pingRes, grub, clientVars, popped, handled, errLogged,
                 pingReply,
                 sideVars>>

\* Bug variant: the Err of the RPC is dropped (no `?`) and the await follows.
HandlerRpcIgnoringError ==
  /\ hpc = "run"
  /\ plan # <<>>
  /\ Head(plan).op \in {"reboot", "suspend", "shut_down"}
  /\ \E replied \in BOOLEAN :
       log' = Append(log, Entry(Head(plan).op, <<>>, replied))
  /\ plan' = Tail(plan)
  /\ UNCHANGED <<hpc, result>>
  /\ pubSince' = FALSE
  /\ UNCHANGED <<cfgVars, handles, queue, state, rxSeen, pollerVars, cur,
                 pingRes, grub, clientVars, popped, handled, errLogged,
                 pingReply,
                 sideVars>>

\* self.agent.reboot() / suspend() / shut_down(): the RPC returns Ok or Err.
HandlerRpc ==
  /\ hpc = "run"
  /\ plan # <<>>
  /\ Head(plan).op \in {"reboot", "suspend", "shut_down"}
  /\ \E replied \in BOOLEAN :
       /\ log' = Append(log, Entry(Head(plan).op, <<>>, replied))
       /\ IF replied
            THEN /\ plan' = Tail(plan)
                 /\ UNCHANGED <<hpc, result>>
            ELSE Finish("AgentRpcFailed")
  /\ pubSince' = FALSE
  /\ UNCHANGED <<cfgVars, handles, queue, state, rxSeen, pollerVars, cur,
                 pingRes, grub, clientVars, popped, handled, errLogged,
                 pingReply,
                 sideVars>>

\* Bug variant: the borrowed value is not tested before the loop.
AwaitStartNoBorrow ==
  /\ hpc = "run"
  /\ plan # <<>>
  /\ Head(plan).op \in AwaitOps
  /\ log' = Append(log, Entry(Head(plan).op, Head(plan).arg, TRUE))
  /\ rxSeen' = TRUE
  /\ hpc' = "await"
  /\ UNCHANGED <<cfgVars, handles, queue, state, pollerVars, cur, pingRes,
                 plan, result, grub, clientVars, popped, handled, pubSince,
                 errLogged, pingReply, sideVars>>

\* Handler::await_state, up to the loop: clone the receiver (the Handler's
\* own receiver never calls recv, so the clone has seen nothing) and test the
\* borrowed value.
AwaitStart ==
  /\ hpc = "run"
  /\ plan # <<>>
  /\ Head(plan).op \in AwaitOps
  /\ log' = Append(log, Entry(Head(plan).op, Head(plan).arg, TRUE))
  /\ rxSeen' = FALSE
  /\ IF AwaitPred(Head(plan), state)
       THEN Finish("ok")
       ELSE /\ hpc' = "await"
            /\ UNCHANGED <<plan, result>>
  /\ UNCHANGED <<cfgVars, handles, queue, state, pollerVars, cur, pingRes,
                 grub, clientVars, popped, handled,
                 pubSince, errLogged, pingReply,
                 sideVars>>

\* Bug variant: the None of a closed channel ends the await with Ok.
AwaitRecvClosedIsOk ==
  /\ hpc = "await"
  /\ \/ ~rxSeen
     \/ ppc = "exited"
  /\ IF ~rxSeen
       THEN IF AwaitPred(Head(plan), state)
              THEN /\ Finish("ok")
                   /\ rxSeen' = FALSE
              ELSE /\ rxSeen' = TRUE
                   /\ UNCHANGED <<hpc, plan, result>>
       ELSE /\ rxSeen' = FALSE
            /\ Finish("ok")
  /\ UNCHANGED <<cfgVars, handles, queue, state, pollerVars, cur, pingRes,
                 log, grub, clientVars, popped, handled, pubSince, errLogged,
                 pingReply, sideVars>>

\* One state_rx.recv().await of the loop in await_state: Some(value) when the
\* receiver has not seen the latest version, None when it has and the sender
\* is gone.
AwaitRecv ==
  /\ hpc = "await"
  /\ \/ ~rxSeen
     \/ ppc = "exited"
  /\ IF ~rxSeen
       THEN IF AwaitPred(Head(plan), state)
              THEN /\ Finish("ok")
                   /\ rxSeen' = FALSE
              ELSE /\ rxSeen' = TRUE
                   /\ UNCHANGED <<hpc, plan, result>>
       ELSE /\ rxSeen' = FALSE
            /\ Finish("StateChannelClosed")
  /\ UNCHANGED <<cfgVars, handles, queue, state, pollerVars, cur, pingRes,
                 log, grub, clientVars, popped, handled,
                 pubSince, errLogged, pingReply,
                 sideVars>>

\* Bug variant: when the deadline passes the handler starts over on the
\* action instead of giving up.
AwaitTimeoutRetries ==
  /\ hpc = "await"
  /\ ppc # "exited"
  /\ Len(log) < 8
  /\ hpc' = "run"
  /\ plan' = Dispatch(cur.action, pingRes)
  /\ rxSeen' = FALSE
  /\ UNCHANGED <<cfgVars, handles, queue, state, pollerVars, cur,
                 pingRes, log, result, grub, clientVars, popped, handled,
                 pubSince, errLogged, pingReply,
                 sideVars>>

\* Bug variant: the deadline does not end the await (the timer is not armed
\* around the loop).
AwaitNoTimeout ==
  /\ hpc = "await"
  /\ UNCHANGED vars

\* time::timeout(ACTION_TIMEOUT, ..) elapses while the loop is waiting.
\* Timeout polls the loop before its timer, and once the channel is closed the
\* loop always has something to return (the unseen value, then None), so the
\* timer ends the await only while the channel is open. On an open channel a
\* timeout taken with a value unseen is the run in which the timer fired just
\* before that value was published.
AwaitTimeout ==
  /\ hpc = "await"
  /\ ppc # "exited"
  /\ Finish("Timeout")
  /\ rxSeen' = FALSE
  /\ UNCHANGED <<cfgVars, handles, queue, state, pollerVars, cur,
                 pingRes, log, grub, clientVars, popped, handled,
                 pubSince, errLogged, pingReply,
                 sideVars>>

Next ==
  \/ PollerTick
  \/ PollerClosed
  \/ \E a \in Actions : ServeAction(a)
  \/ DropHandle
  \/ HandlerRecv
  \/ HandlerReturn
  \/ HandlerClosed
  \/ HandlerPing
  \/ HandlerConfigure
  \/ HandlerBoot
  \/ HandlerRpc
  \/ AwaitStart
  \/ AwaitRecv
  \/ AwaitTimeout

Spec == Init /\ [][Next]_vars

\* The steps of the state_poller task.
state_poller == PollerTick \/ PollerClosed

\* The steps of the Handler::process task, but for the timer of the await.
process ==
  \/ HandlerRecv
  \/ HandlerReturn
  \/ HandlerClosed
  \/ HandlerPing
  \/ HandlerConfigure
  \/ HandlerBoot
  \/ HandlerRpc
  \/ AwaitStart
  \/ AwaitRecv

\* AgentConnection::ping applied, by the poller of a device that is given no
\* action, to replies fixed ahead of each call.
InitPing ==
  /\ Start
  /\ pingReply \in PingReplies
  /\ SideStart

PingSpec == InitPing /\ [][PollerTickFixed]_vars

\* The device together with requests that name a device the map does not hold.
NextServer ==
  \/ Next
  \/ \E id \in RequestIds : \E route \in Routes : ServeUnknownDevice(id, route)

ServerSpec == Init /\ [][NextServer]_vars

\* The device with a poller whose task can panic.
NextPanic ==
  \/ Next
  \/ PollerPanics

PanicSpec == Init /\ [][NextPanic]_vars

\* build_magic_packet applied to the addresses and buffers above.
InitPacket ==
  /\ Start
  /\ pingReply = NoReply
  /\ packetSource \in MacAddrs
  /\ packetDest \in MacAddrs
  /\ packetBuf \in Buffers
  /\ packetRes = "none"
  /\ IdIdle
  /\ WakerIdle
  /\ wakeIface = [w \in Wakers |-> default_interface]
  /\ AgentIdle
  /\ agentConfig = [m \in PowerMethods |-> NoCommand]
  /\ Lifecycle(1)

PacketSpec == InitPacket /\ [][BuildMagicPacket]_vars

\* DeviceId::new applied to the strings of up to MaxIdLength characters.
InitId ==
  /\ Start
  /\ pingReply = NoReply
  /\ PacketIdle
  /\ idInput \in StringsUpTo(MaxIdLength)
  /\ idRes = NoId
  /\ WakerIdle
  /\ wakeIface = [w \in Wakers |-> default_interface]
  /\ AgentIdle
  /\ agentConfig = [m \in PowerMethods |-> NoCommand]
  /\ Lifecycle(1)

IdSpec == InitId /\ [][DeviceIdNew]_vars

\* The Waker shared by the devices' handlers, each with the interface name
\* its boot() passes.
InitWaker ==
  /\ Start
  /\ pingReply = NoReply
  /\ PacketIdle
  /\ IdIdle
  /\ WakerIdle
  /\ wakeIface \in [Wakers -> InterfaceNames]
  /\ AgentIdle
  /\ agentConfig = [m \in PowerMethods |-> NoCommand]
  /\ Lifecycle(1)

NextWaker ==
  \E w \in Wakers :
    \/ WakeCall(w)
    \/ SendersLock(w)
    \/ Shared_sender(w)
    \/ WolSender_new(w)
    \/ SenderLock(w)
    \/ SendMagicPacket(w)
    \/ WakeReturn(w)

WakerSpec == InitWaker /\ [][NextWaker]_vars

\* The agent, with each of its three commands unset, empty or set, and its
\* power RPCs.
InitAgent ==
  /\ Start
  /\ pingReply = NoReply
  /\ PacketIdle
  /\ IdIdle
  /\ WakerIdle
  /\ wakeIface = [w \in Wakers |-> default_interface]
  /\ AgentIdle
  /\ agentConfig \in [PowerMethods -> Commands]
  /\ Lifecycle(1)

NextAgent ==
  \/ \E method \in PowerMethods : PowerRpc(method)
  \/ ChildExit

AgentSpec == InitAgent /\ [][NextAgent]_vars

\* The controller's lifecycle with any number of configured devices, whose
\* tasks are free to call Shutdown::recv and to end at any point.
InitLifecycle ==
  /\ Start
  /\ pingReply = NoReply
  /\ PacketIdle
  /\ IdIdle
  /\ WakerIdle
  /\ wakeIface = [w \in Wakers |-> default_interface]
  /\ AgentIdle
  /\ agentConfig = [m \in PowerMethods |-> NoCommand]
  /\ \E n \in 0..MaxDevices : Lifecycle(n)

NextLifecycle ==
  \/ \E d \in Tasks : ShutdownRecv(d)
  \/ \E d \in Tasks : TaskFinish(d)
  \/ RunFails
  \/ ShutdownStart
  \/ ShutdownBroadcast
  \/ ShutdownClosed

LifecycleSpec == InitLifecycle /\ [][NextLifecycle]_vars

\* The two tasks of the device are spawned on the tokio runtime, which runs a
\* task whenever it can make progress: the agent's replies, the file write
\* and the WoL send return, the interval keeps ticking, and the timer of
\* time::timeout fires while the await is still waiting. Clients are free to
\* send requests or not, and to keep the handle for ever.
FairSpec ==
  /\ Spec
  /\ WF_vars(state_poller)
  /\ WF_vars(process)
  /\ WF_vars(AwaitTimeout)

\* ------------------------------------------------------------- properties
Busy == hpc \in {"ping", "run", "await", "return"}
InFlight == Len(popped) - Len(handled)
SeqToSet(q) == {q[i] : i \in 1..Len(q)}
Accepted == (1..nsub) \ rejected
Unfinished == Accepted \ SeqToSet(handled)
LogOps == [i \in 1..Len(log) |-> <<log[i].op, log[i].arg>>]
IsPrefix(a, b) == Len(a) <= Len(b) /\ \A i \in 1..Len(a) : a[i] = b[i]
AllButLastOk == \A i \in 1..(Len(log) - 1) : log[i].ok
\* the handle_* call of cur stopped before its last step only on a failed step
StoppedOnlyOnFailure(n) ==
  (hpc = "return" /\ Len(log) < n) =>
     /\ log # <<>>
     /\ ~log[Len(log)].ok
     /\ result \notin {"ok", "none"}
MentionsDevice(text) == \E i \in 1..Len(text) : text[i] = DEVICE_ID

\* C1: at most one action is in flight per device: the handler has at most
\* one popped action whose handle_* call has not returned, every effect
\* recorded belongs to that action, and an effect is only ever issued for the
\* single action in flight (never for a second one while the first runs).
C1_AtMostOneInFlight ==
  /\ [](/\ InFlight \in {0, 1}
        /\ (InFlight = 1) <=> Busy
        /\ \A i \in 1..Len(log) : log[i].id = cur.id
        /\ Busy => cur.id = popped[Len(popped)])
  /\ [][(log' # log /\ log' # <<>>) =>
          /\ InFlight = 1
          /\ log'[Len(log')].id = popped[Len(popped)]]_vars

\* C1 witness: an action is being handled, has issued effects, and another
\* accepted action waits in the queue.
C1_Witness ==
  /\ hpc = "await"
  /\ Len(log) >= 3
  /\ queue # <<>>
  /\ InFlight = 1

\* C2 (as claimed): a Device::action call made while an accepted action is
\* not yet finished (queued or being handled) fails and enqueues nothing.
C2_BusyUntilFinished ==
  [][(nsub' = nsub + 1 /\ Unfinished # {}) =>
        /\ (nsub + 1) \in rejected'
        /\ queue' = queue]_vars

\* C3: a submission that finds the queue empty is accepted with 200 and
\* queued; one that finds the first still queued is rejected with 503 and an
\* error naming the device, leaves the queue alone, and is never popped by
\* the handler; so once the first is popped a later submission is accepted.
C3_BackToBack ==
  /\ [](/\ rejected \cap SeqToSet(popped) = {}
        /\ \A i \in 1..Len(queue) : queue[i].id \notin rejected)
  /\ [][(nsub' = nsub + 1) =>
          IF queue = <<>>
            THEN /\ resp'.status = 200
                 /\ resp'.success
                 /\ Len(queue') = 1
                 /\ queue'[1].id = nsub + 1
                 /\ rejected' = rejected
            ELSE /\ resp'.status = 503
                 /\ ~resp'.success
                 /\ MentionsDevice(resp'.error)
                 /\ queue' = queue
                 /\ rejected' = rejected \cup {nsub + 1}]_vars

\* C3 witness: first accepted, second rejected while the first was queued,
\* third accepted after the handler popped the first.
C3_Witness ==
  /\ nsub = 3
  /\ rejected = {2}
  /\ popped = <<1>>
  /\ Len(queue) = 1
  /\ queue[1].id = 3
  /\ resp.status = 200

\* C4: whenever a transport command (WoL or RPC) of a Run(target) action has
\* been issued, the step before it was a successful configure of that target
\* and the file holds the assignment of the target's configured menu entry.
C4_ConfigBeforeTransport ==
  cur.action[1] = "Run" =>
    \A i \in 1..Len(log) :
      log[i].op \in TransportOps =>
        /\ i > 1
        /\ log[i - 1].op = "configure"
        /\ log[i - 1].ok
        /\ log[i - 1].arg = <<cur.action[2]>>
        /\ cur.action[2] \in DOMAIN targets
        /\ grub = <<"set ", "samwise_entry", "=\"", targets[cur.action[2]],
                    "\"\n", "export ", "samwise_entry", "\n">>

\* C4 witness: a Run action finished with Ok after a WoL send.
C4_Witness ==
  /\ hpc = "return"
  /\ result = "ok"
  /\ cur.action = Run("ubuntu")
  /\ Len(log) = 4
  /\ log[3].op = "boot"

\* C5: an await is started only right after a transport command that was
\* issued and returned Ok; the handler is never in an await without one.
C5_AwaitAfterTransport ==
  /\ \A i \in 1..Len(log) :
       log[i].op \in AwaitOps =>
         /\ i > 1
         /\ log[i - 1].op \in TransportOps
         /\ log[i - 1].ok
  /\ hpc = "await" =>
       /\ log # <<>>
       /\ log[Len(log)].op \in AwaitOps

\* C5 witness: the handler awaits Off after a suspend RPC that returned Ok.
C5_Witness ==
  /\ hpc = "await"
  /\ Len(log) = 3
  /\ log[2].op = "suspend"
  /\ log[2].ok
  /\ log[3].op = "await_off"

\* C6: Unknown is only the initial value of the state channel: once the
\* poller has published the result of a ping the value is not Unknown, and a
\* value that is not Unknown never becomes Unknown again.
C6_UnknownOnlyInitially ==
  /\ []((pollRes # NoStatus /\ ppc = "select") => state # Unknown)
  /\ [][(state # Unknown) => (state' # Unknown)]_vars

\* C6 witness: the poller published Off, the result of a ping that got no
\* answer, while the handler was in an await.
C6_Witness ==
  /\ state = Off
  /\ pollRes = Inactive
  /\ hpc = "await"
  /\ ~rxSeen
  /\ Head(plan).op = "await_running_target"

\* C7: Run(X) whose ping returns Active(X) ends at once with Ok; the ping is
\* its only effect (no config write, WoL, RPC or await), and the step leaves
\* the config file and the state channel as they were.
C7_RunSameTargetNoop ==
  /\ []((cur.action[1] = "Run" /\ pingRes = Active(cur.action[2])) =>
          /\ hpc = "return"
          /\ result = "ok"
          /\ LogOps = << <<"ping", <<>>>> >>)
  /\ [][(hpc' # hpc /\ cur.action[1] = "Run"
           /\ Active(cur.action[2]) \in {pingRes, pingRes'}) =>
          /\ grub' = grub
          /\ state' = state]_vars

\* C7 witness: Run(ubuntu) was handled while the agent reported ubuntu.
C7_Witness ==
  /\ cur.action = Run("ubuntu")
  /\ pingRes = Active("ubuntu")
  /\ hpc = "return"
  /\ result = "ok"

\* C8: Suspend or ShutDown whose ping returns Inactive ends at once with Ok;
\* the ping is its only effect (no RPC, WoL, config write or await) and the
\* config file and the state channel are left as they were.
C8_PowerDownWhenInactiveNoop ==
  /\ []((cur.action \in {Suspend, ShutDown} /\ pingRes = Inactive) =>
          /\ hpc = "return"
          /\ result = "ok"
          /\ LogOps = << <<"ping", <<>>>> >>)
  /\ [][(hpc' # hpc /\ cur.action \in {Suspend, ShutDown}
           /\ Inactive \in {pingRes, pingRes'}) =>
          /\ grub' = grub
          /\ state' = state]_vars

\* C8 witness: a Suspend was handled while the agent did not answer.
C8_Witness ==
  /\ cur.action = Suspend
  /\ pingRes = Inactive
  /\ hpc = "return"
  /\ result = "ok"

\* C9: Run(target) whose ping returns Active(other), other # target, issues
\* ping, configure(target), reboot RPC, await Running(target) in this order,
\* each step only after the previous one succeeded, never a WoL send, and it
\* ends with Ok only when the state channel holds Running(target).
C9_RunOtherTargetReboots ==
  /\ [](\A t \in TargetIds : \A o \in AgentTargets :
          (cur.action = Run(t) /\ pingRes = Active(o) /\ o # t) =>
            /\ IsPrefix(LogOps, << <<"ping", <<>>>>, <<"configure", <<t>>>>,
                                   <<"reboot", <<>>>>,
                                   <<"await_running_target", <<t>>>> >>)
            /\ AllButLastOk
            /\ (hpc = "await" \/ result = "ok") => Len(log) = 4
            /\ StoppedOnlyOnFailure(4))
  /\ [][(cur.action[1] = "Run" /\ pingRes[1] = "Active"
           /\ result = "none" /\ result' = "ok") =>
          state = Running(cur.action[2])]_vars

\* C9 witness: Run(ubuntu) on a device running windows finished with Ok.
C9_Witness ==
  /\ cur.action = Run("ubuntu")
  /\ pingRes = Active("windows")
  /\ hpc = "return"
  /\ result = "ok"
  /\ Len(log) = 4

\* C10: Run(target) whose ping returns Inactive issues ping,
\* configure(target), one WoL send on the device's interface override (else
\* the default interface) to the device's MAC, await Running(target), in this
\* order, each step only after the previous one succeeded, never a reboot
\* RPC, and it ends with Ok only when the state channel holds Running(target).
C10_RunWhenInactiveWakes ==
  /\ [](\A t \in TargetIds :
          (cur.action = Run(t) /\ pingRes = Inactive) =>
            /\ IsPrefix(LogOps,
                 << <<"ping", <<>>>>, <<"configure", <<t>>>>,
                    <<"boot", <<IF cfg_interface # "" THEN cfg_interface
                                ELSE "eth0", "aa:bb:cc:dd:ee:ff">>>>,
                    <<"await_running_target", <<t>>>> >>)
            /\ AllButLastOk
            /\ (hpc = "await" \/ result = "ok") =>
                 /\ Len(log) = 4
                 /\ Cardinality({i \in 1..Len(log) : log[i].op = "boot"}) = 1
            /\ StoppedOnlyOnFailure(4))
  /\ [][(cur.action[1] = "Run" /\ pingRes = Inactive
           /\ result = "none" /\ result' = "ok") =>
          state = Running(cur.action[2])]_vars

\* C10 witness: Run(ubuntu) on a device that is off and has an interface
\* override finished with Ok.
C10_Witness ==
  /\ cur.action = Run("ubuntu")
  /\ pingRes = Inactive
  /\ cfg_interface = "eth1"
  /\ hpc = "return"
  /\ result = "ok"
  /\ Len(log) = 4

\* C11 (as claimed): a Reboot whose ping returned Active(current) finishes
\* with Ok only after the poller has published Running(current) in a
\* publication made after the reboot RPC; a value cached before the RPC does
\* not complete the await.
C11_RebootReobserves ==
  [][(cur.action = Reboot /\ pingRes[1] = "Active"
        /\ result = "none" /\ result' = "ok") =>
       /\ pubSince
       /\ state = Running(pingRes[2])]_vars

\* C12: Suspend (resp. ShutDown) whose ping returns Active(_) issues ping,
\* the suspend (resp. shut_down) RPC and no other command, then awaits Off,
\* each step only after the previous one succeeded; it ends with Ok only in
\* the await, on reading the value Off from the state channel.
C12_PowerDownAwaitsOff ==
  /\ [](\A a \in {Suspend, ShutDown} :
          (cur.action = a /\ pingRes[1] = "Active") =>
            /\ IsPrefix(LogOps,
                 << <<"ping", <<>>>>,
                    <<IF a = Suspend THEN "suspend" ELSE "shut_down", <<>>>>,
                    <<"await_off", <<>>>> >>)
            /\ AllButLastOk
            /\ (hpc = "await" \/ result = "ok") => Len(log) = 3
            /\ StoppedOnlyOnFailure(3))
  /\ [][(cur.action \in {Suspend, ShutDown} /\ pingRes[1] = "Active"
           /\ result = "none" /\ result' = "ok") =>
          /\ state = <<"Off">>
          /\ plan # <<>>
          /\ Head(plan).op = "await_off"
          /\ Len(log') = 3]_vars

\* C12 witness: a ShutDown of a running device finished with Ok on an Off
\* published after the shut_down RPC.
C12_Witness ==
  /\ cur.action = ShutDown
  /\ pingRes = Active("windows")
  /\ hpc = "return"
  /\ result = "ok"
  /\ Len(log) = 3
  /\ log[2].op = "shut_down"
  /\ pubSince

\* C13: whatever a handle_* call returned (Ok or any failure), the handler
\* logs it and goes back to waiting on the action channel; the task ends only
\* in that wait, with every handle dropped and nothing queued; and when an
\* action fails while another one is queued, the handler pops that one next
\* (errLogged still tells of the failure when it is popped).
C13_HandlerSurvivesFailure ==
  /\ [][(hpc = "return") =>
          /\ hpc' \in {"return", "recv"}
          /\ (hpc' = "recv") => (errLogged' = (result # "ok"))]_vars
  /\ [][(hpc' = "exited") => (hpc \in {"recv", "exited"})]_vars
  /\ [](hpc = "exited" => (handles = 0 /\ queue = <<>>))
  /\ (hpc = "return" /\ result # "ok" /\ queue # <<>>)
       ~> (errLogged /\ hpc = "ping")

\* C13 witness: the action handled before this one failed, and this one has
\* gone through its steps and finished with Ok.
C13_Witness ==
  /\ errLogged
  /\ hpc = "return"
  /\ result = "ok"
  /\ Len(log) >= 3
  /\ handled # <<>>

\* C14: every accepted action is eventually handled to its end: an accepted
\* action that is not finished is the one queued or the one being handled,
\* the queued one is eventually popped, and the one being handled (in an
\* await or elsewhere) eventually returns and is counted as handled, the
\* handler being back at the wait for the next action. The handler leaves an
\* await only with Ok on a value that satisfies the awaited predicate, with
\* Timeout, or with StateChannelClosed once the poller is gone, so an await
\* whose state is never published ends with Timeout. ([]<>~P is P ~> ~P.)
C14_EveryActionFinishes ==
  /\ [](Unfinished = {queue[k].id : k \in 1..Len(queue)}
                       \cup (IF Busy THEN {cur.id} ELSE {}))
  /\ []<>(queue = <<>>)
  /\ []<>(~Busy)
  /\ [][(Busy /\ ~Busy') => hpc' = "recv"]_vars
  /\ [][(queue # <<>> /\ queue' = <<>>) =>
          (cur' = Head(queue) /\ hpc' = "ping")]_vars
  /\ [][(Busy /\ hpc' = "recv") => handled' = Append(handled, cur.id)]_vars
  /\ [][(hpc = "await" /\ hpc' # "await") =>
          /\ hpc' = "return"
          /\ \/ result' = "ok" /\ AwaitPred(Head(plan), state)
             \/ result' = "Timeout"
             \/ result' = "StateChannelClosed" /\ ppc = "exited"]_vars
  /\ [][(result' = "Timeout" /\ result # "Timeout") => hpc = "await"]_vars

\* C14 witness: a Suspend ended with Timeout: the poller published after the
\* RPC, the handler has read the latest value, and it is not Off.
C14_Witness ==
  /\ cur.action = Suspend
  /\ hpc = "return"
  /\ result = "Timeout"
  /\ pubSince
  /\ state # Off
  /\ nsub = 1

\* C15: once the last Device handle is dropped both tasks of the device
\* eventually exit. The handler ends only in its wait on the action channel,
\* when every sender is gone and nothing is queued; the poller ends only when
\* the state channel has no receiver left (the handles' and the handler's);
\* and a task that has ended stays ended.
C15_TasksExitAfterLastDrop ==
  /\ (handles = 0) ~> (hpc = "exited" /\ ppc = "exited")
  /\ [][(hpc' = "exited" /\ hpc # "exited") =>
          (hpc = "recv" /\ handles = 0 /\ queue = <<>>)]_vars
  /\ [][(ppc' = "exited" /\ ppc # "exited") =>
          (handles = 0 /\ hpc = "exited")]_vars
  /\ [][(hpc = "exited" => hpc' = "exited")
          /\ (ppc = "exited" => ppc' = "exited")
          /\ (handles = 0 => handles' = 0)]_vars

\* C15 witness: the handle was dropped after actions were handled, and both
\* tasks have ended.
C15_Witness ==
  /\ handles = 0
  /\ hpc = "exited"
  /\ ppc = "exited"
  /\ Len(handled) >= 2

\* C16: the reply to an action request is fixed by the outcome of the
\* submission alone: 200 when the action went into the queue, 503 when it
\* did not; it is given in the step of the submission, in which the handler
\* does not move (the action is still queued, neither popped nor handled);
\* and no later step of the handler or the poller, failures included,
\* changes the reply given.
C16_ResponseAtAcceptance ==
  /\ [][(nsub' = nsub + 1) =>
          /\ (resp'.status = 200) <=> (queue' # queue)
          /\ (resp'.status = 200) <=> ((nsub + 1) \notin rejected')
          /\ resp'.status \in {200, 503}
          /\ resp'.success <=> (resp'.status = 200)
          /\ (resp'.status = 200) =>
                (queue'[Len(queue')].id = nsub + 1 /\ resp'.device = "d1")
          /\ <<hpc, cur, popped, handled, result, log>>'
               = <<hpc, cur, popped, handled, result, log>>]_vars
  /\ [][(nsub' = nsub) => (resp' = resp)]_vars

\* C16 witness: the latest request was answered 200, and the action it
\* submitted has since failed with Timeout.
C16_Witness ==
  /\ resp.status = 200
  /\ nsub = 2
  /\ cur.id = 2
  /\ hpc = "return"
  /\ result = "Timeout"

\* C17 (as claimed): a Run request whose target is not in the device's target
\* map is answered 503. (A submission that is not accepted is answered 503
\* whatever it asks for; the accepted ones decide the claim.)
C17_UnknownTargetIs503 ==
  [][(nsub' = nsub + 1 /\ queue' # queue
        /\ queue'[Len(queue')].action[1] = "Run"
        /\ queue'[Len(queue')].action[2] \notin {"windows", "ubuntu"}) =>
       (resp'.status = 503 /\ ~resp'.success)]_vars

\* C17 (amended): a Run request for an unknown target is answered like any
\* other action request: 503 only when the submission fails, which needs a
\* full queue or an ended handler, and 200 when it is queued. UnknownTarget
\* arises later, in the handler's configure step (so only when the ping did
\* not report that target as running), which leaves the reply and the config
\* file as they were.
C17_UnknownTargetQueuedThenLogged ==
  /\ [][(nsub' = nsub + 1 /\ resp'.status = 503) =>
          (queue # <<>> \/ hpc = "exited")]_vars
  /\ [][(nsub' = nsub + 1 /\ queue' # queue
           /\ queue'[Len(queue')].action[1] = "Run"
           /\ queue'[Len(queue')].action[2] \notin {"windows", "ubuntu"}) =>
          (resp'.status = 200 /\ resp'.success)]_vars
  /\ [][(result' = "UnknownTarget" /\ result = "none") =>
          /\ cur.action[1] = "Run"
          /\ cur.action[2] \notin {"windows", "ubuntu"}
          /\ pingRes # <<"Active", cur.action[2]>>
          /\ Head(plan).op = "configure"
          /\ resp' = resp
          /\ grub' = grub]_vars

\* C17 witness: the only request, Run(bsd), was answered 200 and its action
\* then failed with UnknownTarget.
C17_Witness ==
  /\ nsub = 1
  /\ resp.status = 200
  /\ cur.action = Run("bsd")
  /\ hpc = "return"
  /\ result = "UnknownTarget"

\* C18: a request under /device/{id}/ whose id is not a key of the device
\* map is answered 404 with the body {success: false, error: "Not found"},
\* whatever the route and whatever the device of the map is doing; the
\* request submits no action (queue, submission count and handler are left as
\* they were) and the reply does not depend on the device state, which the
\* request leaves alone as well.
C18_UnknownDeviceIs404 ==
  /\ [](req # "" =>
          /\ req # "d1"
          /\ resp = [status |-> 404, success |-> FALSE, device |-> "",
                     error |-> <<"Not found">>])
  /\ [][(req' # req /\ req' # "") =>
          <<queue, nsub, rejected, popped, handled, hpc, cur, plan, log,
            result, state, rxSeen, ppc, grub, handles>>'
            = <<queue, nsub, rejected, popped, handled, hpc, cur, plan, log,
                result, state, rxSeen, ppc, grub, handles>>]_vars

\* C18 witness: a request for device d2 was answered 404 while the handler of
\* d1 was in an await with another action queued.
C18_Witness ==
  /\ req = "d2"
  /\ resp.status = 404
  /\ hpc = "await"
  /\ queue # <<>>
  /\ state # Unknown

\* the accepted submissions, in the order in which they were accepted
AcceptedSeq == SelectSeq([i \in 1..nsub |-> i], LAMBDA i : i \notin rejected)
QueuedIds == [k \in 1..Len(queue) |-> queue[k].id]

\* C19: the actions the handler has popped, followed by the ones still
\* queued, are exactly the accepted submissions in the order of acceptance,
\* so none is lost, duplicated or overtaken; the ones whose handling has
\* ended are the popped ones but possibly the last; a rejected submission is
\* in none of them; and the handler handles the very action that was queued,
\* whose handling ends once, for the action in hand.
C19_AcceptedHandledOnceInOrder ==
  /\ [](/\ popped \o QueuedIds = AcceptedSeq
        /\ IsPrefix(handled, popped)
        /\ Len(popped) - Len(handled) \in {0, 1}
        /\ \A i \in rejected :
             i \notin SeqToSet(popped) \cup SeqToSet(handled)
                       \cup SeqToSet(QueuedIds))
  /\ [][(popped' # popped) =>
          /\ queue # <<>>
          /\ cur' = Head(queue)
          /\ queue' = Tail(queue)
          /\ popped' = Append(popped, cur'.id)]_vars
  /\ [][(handled' # handled) =>
          /\ handled' = Append(handled, cur.id)
          /\ cur.id = popped[Len(popped)]
          /\ cur.id \notin SeqToSet(handled)]_vars
  /\ [][(nsub' = nsub + 1 /\ queue' # queue) =>
          /\ queue' = Append(queue, queue'[Len(queue')])
          /\ queue'[Len(queue')].id = nsub + 1
          /\ queue'[Len(queue')].action
               \in {<<"Run", "ubuntu">>, <<"Run", "bsd">>, <<"Reboot">>,
                    <<"Suspend">>, <<"ShutDown">>}]_vars

\* C19 witness: three submissions, the second rejected as busy; the first
\* and the third were handled, in this order.
C19_Witness ==
  /\ nsub = 3
  /\ rejected = {2}
  /\ handled = <<1, 3>>
  /\ hpc = "recv"

\* C20: AgentConnection::ping turns every outcome of the Ping RPC into a
\* status and never into an error: an Ok reply whose current_target is t
\* gives Active(t), whatever t is, and every other outcome gives Inactive,
\* whatever its status code; the same reply always gives the same result.
C20_PingTotal ==
  [][/\ (pingReply[1] = "Ok") => (pollRes' = <<"Active", pingReply[2]>>)
     /\ (pingReply[1] # "Ok") => (pollRes' = <<"Inactive">>)
     /\ pollRes'[1] \in {"Active", "Inactive"}]_vars

\* C20 witness: the agent answered Ok with a target the controller does not
\* know, and the next call is to fail with DeadlineExceeded.
C20_Witness ==
  /\ pollRes = <<"Active", "bsd">>
  /\ state = <<"Running", "bsd">>
  /\ pingReply = <<"Err", "DeadlineExceeded">>

\* C21: for every source and destination address, build_magic_packet on a
\* buffer of 116 bytes, whatever it held, succeeds and leaves the destination
\* in bytes 0-5, the source in bytes 6-11, 0x08 0x42 in bytes 12-13, 0xFF in
\* bytes 14-19 and the destination 16 times over in bytes 20..116, so that no
\* byte keeps its old value; on a buffer of any other length it is an error.
C21_PacketLayout ==
  packetRes # "none" =>
    IF Len(packetBuf) = MAGIC_PACKET_SIZE
      THEN /\ packetRes = "ok"
           /\ \A i \in 0..5 : packetBuf[i + 1] = packetDest[i + 1]
           /\ \A i \in 6..11 : packetBuf[i + 1] = packetSource[i - 5]
           /\ packetBuf[13] = 8 /\ packetBuf[14] = 66
           /\ \A i \in 14..19 : packetBuf[i + 1] = 255
           /\ \A i \in 20..115 :
                 packetBuf[i + 1] = packetDest[((i - 20) % 6) + 1]
      ELSE packetRes = "err"

C21_Witness ==
  /\ packetRes = "ok"
  /\ packetSource # packetDest
  /\ packetDest # BROADCAST_BYTES
  /\ packetBuf[116] = packetDest[6]

\* C22: constructing a DeviceId is rejected whenever the string is empty or
\* has a character outside [A-Za-z0-9]; only non-empty alphanumeric strings
\* become DeviceIds.
C22_DeviceIdValidated ==
  idRes # NoId =>
     (idRes.ok <=>
        (/\ idInput # <<>>
         /\ \A i \in 1..Len(idInput) : idInput[i] \in Alphanumeric))

\* C23: however many wake calls are under way, at most one of them is inside
\* send_magic_packet on a given interface, while calls on two different
\* interfaces can be inside it at the same time.
C23_OneSendPerInterface ==
  \A a, b \in Wakers :
    (a # b /\ wpc[a] = "send" /\ wpc[b] = "send") => wakeIface[a] # wakeIface[b]

C23_Witness ==
  \E a, b \in Wakers :
    /\ wpc[a] = "send" /\ wpc[b] = "send"
    /\ wakeIface[a] # wakeIface[b]
    /\ \E c \in Wakers : wpc[c] = "lock" /\ wakeIface[c] = wakeIface[a]

\* C24: a wake call whose interface name is not among the interfaces
\* enumerated at construction ends with the NoSuchInterface error, never gets
\* a sender, caches none, and sends no packet.
C24_NoSuchInterface ==
  \A w \in Wakers :
    wakeIface[w] \notin interfaces =>
      /\ wpc[w] \notin {"lock", "send"}
      /\ ~wakeSent[w]
      /\ wakeIface[w] \notin senders
      /\ wpc[w] = "done" => wakeRes[w] = "NoSuchInterface"

C24_Witness ==
  \E w \in Wakers :
    /\ wakeIface[w] \notin interfaces
    /\ wpc[w] = "done"
    /\ wakeRes[w] = "NoSuchInterface"
    /\ \E v \in Wakers : wakeSent[v]

\* The wake call of device a cannot go on before the call of device b lets go
\* of a mutex of the Waker.
WaitsFor(a, b) ==
  \/ wpc[a] = "sender" /\ sendersLock = b
  \/ /\ wpc[a] = "lock"
     /\ wakeIface[a] \in interfaces
     /\ senderLock[wakeIface[a]] = b

\* C26: two different devices never contend on shared state: the wake call of
\* one never has to wait for the other's, also when both use the same
\* interface.
C26_NoCrossDeviceContention ==
  \A a, b \in Wakers : a # b => ~WaitsFor(a, b)

\* C26, amended: the devices share the Waker. The wake call of one device
\* waits for another device's only while that one is inside Shared::sender
\* (the mutex of `senders`, held while a sender is looked up or created, never
\* during a send) or while that one is sending on the same interface (the
\* sender's mutex); sends on different interfaces never wait for each other.
C26_ContentionOnlyInWaker ==
  \A a, b \in Wakers :
    (a # b /\ WaitsFor(a, b)) =>
       \/ wpc[a] = "sender" /\ wpc[b] \in {"create", "open"}
       \/ /\ wpc[a] = "lock" /\ wpc[b] = "send"
          /\ wakeIface[a] = wakeIface[b]

C26_Witness ==
  \E a, b, c \in Wakers :
    /\ wpc[a] = "lock" /\ wpc[b] = "send" /\ wakeIface[a] = wakeIface[b]
    /\ WaitsFor(a, b)
    /\ wpc[c] = "send" /\ wakeIface[c] # wakeIface[a]

\* C25: a power RPC whose command is unset, or set to an empty command line,
\* is answered Unimplemented; one whose spawn fails is answered Internal; one
\* whose spawn succeeds is answered Ok while the subprocess is still running.
\* In the three error cases the RPC leaves no subprocess behind.
C25_PowerRpcReplies ==
  [][nrpc' # nrpc =>
       LET command == agentConfig[rpcReply'.method]
           code == rpcReply'.code
       IN /\ command = NoCommand =>
               code = "Unimplemented" /\ children' = children
          /\ command = <<"Some", <<>>>> =>
               code = "Unimplemented" /\ children' = children
          /\ (command # NoCommand /\ command # <<"Some", <<>>>>) =>
               \/ code = "Ok" /\ children' = children + 1
               \/ code = "Internal" /\ children' = children]_vars

C25_Witness ==
  /\ rpcReply.code = "Ok"
  /\ children = 2
  /\ \E m \in PowerMethods : agentConfig[m] = <<"Some", <<>>>>
  /\ \E m \in PowerMethods : agentConfig[m] = NoCommand

\* C27: Samwise::shutdown signals every device task (once its broadcast went
\* through the channel holds true, and every task still running has latched
\* it or gets it from its next Shutdown::recv) and returns Ok only after every
\* device's task has ended and dropped its Shutdown; with any number of
\* configured devices, zero included.
C27_ShutdownWaitsForTasks ==
  /\ spc = "ok" => \A d \in Tasks : task[d] # "run"
  /\ spc \in {"closed", "ok"} =>
       /\ shutdownValue
       /\ \A d \in Tasks :
            (task[d] = "run" /\ taskSeen[d]) => taskShutdown[d]

C27_Witness ==
  /\ spc = "ok"
  /\ ndev = MaxDevices
  /\ \A d \in Tasks : task[d] = "finished"
  /\ \E d \in Tasks : taskShutdown[d]
  /\ \E d \in Tasks : ~taskShutdown[d]

\* C28: await_state gives Ok at once, with no new publication, when the value
\* the channel holds as the await starts satisfies the predicate; otherwise it
\* goes on to test each value it receives and gives Ok at the first that
\* satisfies the predicate. It never gives Ok without having read a value
\* that satisfies the predicate.
C28_AwaitTestsWhatItReads ==
  [][/\ (/\ hpc = "run" /\ plan # <<>>
         /\ Head(plan).op \in AwaitOps
         /\ log' # log) =>
           IF AwaitPred(Head(plan), state)
             THEN hpc' = "return" /\ result' = "ok" /\ state' = state
             ELSE hpc' = "await" /\ result' = "none"
     /\ (hpc = "await" /\ ~rxSeen /\ rxSeen') =>
           ~AwaitPred(Head(plan), state) /\ hpc' = "await"
     /\ (hpc = "await" /\ result' = "ok") =>
           ~rxSeen /\ AwaitPred(Head(plan), state) /\ state' = state
     /\ (/\ hpc \in {"run", "await"} /\ plan # <<>>
         /\ Head(plan).op \in AwaitOps
         /\ result' = "ok") => AwaitPred(Head(plan), state)]_vars

C28_Witness ==
  /\ hpc = "return"
  /\ result = "ok"
  /\ log # <<>>
  /\ log[Len(log)].op = "await_running_target"
  /\ pubSince
  /\ state = Running(log[Len(log)].arg[1])

\* C29: when the state channel is closed (the poller is gone) while the
\* handler is in await_state, the await goes on only to read the value it has
\* not seen; if that does not satisfy the predicate it ends with the
\* StateChannelClosed error and not with the timeout, the failure is logged,
\* and the handler goes back to waiting for the next action.
C29_ClosedChannelEndsAwait ==
  [][/\ (hpc = "await" /\ ppc = "exited" /\ hpc' # "await") =>
          /\ hpc' = "return"
          /\ \/ result' = "StateChannelClosed" /\ rxSeen
             \/ result' = "ok" /\ ~rxSeen /\ AwaitPred(Head(plan), state)
     /\ (hpc = "await" /\ ppc = "exited" /\ rxSeen /\ hpc' = hpc) =>
          UNCHANGED <<result, plan, rxSeen>>
     /\ (hpc = "return" /\ result = "StateChannelClosed" /\ hpc' # hpc) =>
          hpc' = "recv" /\ errLogged']_vars

C29_Witness ==
  /\ ppc = "exited"
  /\ hpc = "return"
  /\ result = "StateChannelClosed"
  /\ handles > 0

\* C30: every value on the state channel is put there by a tick of the poller
\* and is the image of the ping of that tick, Running(t) for Active(t) and Off
\* for Inactive; while the poller runs, the channel holds the image of its
\* latest ping. So latest_state() is Running(t) only after a ping of the
\* poller returned Active(t), and the values follow the order of the pings.
C30_PublishedIsImageOfPing ==
  /\ [][(state' # state) =>
          /\ ppc = "select" /\ ppc' = "select"
          /\ pollRes'[1] = "Active" => state' = <<"Running", pollRes'[2]>>
          /\ pollRes'[1] = "Inactive" => state' = <<"Off">>
          /\ pollRes'[1] \in {"Active", "Inactive"}]_vars
  /\ []((ppc = "select" /\ pollRes # NoStatus) =>
          /\ pollRes[1] = "Active" => state = <<"Running", pollRes[2]>>
          /\ pollRes[1] = "Inactive" => state = <<"Off">>)
  /\ []((pollRes = NoStatus) => state = Unknown)

C30_Witness ==
  /\ state = Running("ubuntu")
  /\ pollRes = Active("ubuntu")
  /\ pingRes = Inactive
  /\ hpc = "await"
  /\ pubSince

\* The effects issued for the action in hand, in order: config writes, WoL
\* sends and power RPCs, without the ping and the await.
EffectOps ==
  LET IsEffect(e) == e.op \in {"configure", "boot", "reboot", "suspend",
                               "shut_down"}
      effects == SelectSeq(log, IsEffect)
  IN [i \in 1..Len(effects) |->
        IF effects[i].op = "configure"
          THEN <<"configure", effects[i].arg[1]>>
          ELSE <<effects[i].op>>]

\* The effects of an action, given the result of the handler's ping and
\* nothing else.
EffectsFor(a, p) ==
  CASE a[1] = "Run" ->
         IF p[1] = "Active"
           THEN IF p[2] = a[2] THEN <<>>
                ELSE << <<"configure", a[2]>>, <<"reboot">> >>
           ELSE << <<"configure", a[2]>>, <<"boot">> >>
    [] a[1] = "Reboot" ->
         IF p[1] = "Active" THEN << <<"reboot">> >> ELSE << <<"boot">> >>
    [] a[1] = "Suspend" ->
         IF p[1] = "Active" THEN << <<"suspend">> >> ELSE <<>>
    [] a[1] = "ShutDown" ->
         IF p[1] = "Active" THEN << <<"shut_down">> >> ELSE <<>>
    [] OTHER -> <<>>

\* C31: the effects the handler issues for an action are fixed by the action
\* and the result of its own ping, whatever value the state channel holds:
\* none before the ping, then the effects in the order the two determine, cut
\* short only by an effect that failed. Two runs with the same action and
\* ping result thus issue the same effects in the same order.
C31_EffectsFollowOwnPing ==
  /\ pingRes = NoStatus => EffectOps = <<>>
  /\ pingRes # NoStatus =>
       /\ IsPrefix(EffectOps, EffectsFor(cur.action, pingRes))
       /\ (hpc = "await" \/ result \in {"ok", "Timeout"}) =>
            EffectOps = EffectsFor(cur.action, pingRes)
       /\ (hpc = "return" /\ EffectOps # EffectsFor(cur.action, pingRes)) =>
            /\ log # <<>>
            /\ ~log[Len(log)].ok

C31_Witness ==
  /\ cur.action = ShutDown
  /\ pingRes = Active("windows")
  /\ state = Off
  /\ EffectOps = << <<"shut_down">> >>
  /\ hpc = "run"

\* C32: over every interleaving of wake calls at most one sender is ever made
\* for an interface name: a call makes one only when none is cached for the
\* name, the one it makes is cached from then on, and no cached sender is ever
\* removed, so every later call for the name gets the cached one.
C32_OneSenderPerInterface ==
  [][/\ senders \subseteq senders'
     /\ \A w \in Wakers :
          (wpc[w] = "open" /\ wpc'[w] = "lock") =>
             /\ wakeIface[w] \notin senders
             /\ wakeIface[w] \in senders'
     /\ \A w \in Wakers :
          (wpc[w] = "create" /\ wakeIface[w] \in senders) =>
             wpc'[w] \in {"create", "lock"}]_vars

C32_Witness ==
  \E a, b, c \in Wakers :
    /\ wakeIface[a] = wakeIface[b] /\ wakeIface[b] = wakeIface[c]
    /\ wakeIface[a] \in senders
    /\ wpc[a] = "send" /\ wakeRes[b] = "OpenFailed" /\ wpc[c] = "lock"

\* C33: the poller never exits before the handler: while the handler's task is
\* alive its receiver keeps the state channel open, so with no task panicking
\* the channel is open whenever the handler is inside await_state, and no
\* await ends with StateChannelClosed.
C33_PollerOutlivesHandler ==
  /\ ppc = "exited" => hpc = "exited"
  /\ hpc = "await" => ppc = "select"
  /\ result # "StateChannelClosed"

C33_Witness ==
  /\ handles = 0
  /\ hpc = "await"
  /\ rxSeen
  /\ ppc = "select"
  /\ queue # <<>>

\* Number of entries of the handler's log whose operation is in ops.
CountOps(ops) ==
  LET IsIn(e) == e.op \in ops IN Len(SelectSeq(log, IsIn))

\* C34: while one action is handled at most one config write and at most one
\* transport command (WoL send or reboot, suspend, shut-down RPC) are issued,
\* all for that action; none is issued again after a failure or after the
\* await timed out, which ends the handling of the action.
C34_NoRetry ==
  /\ CountOps({"configure"}) <= 1
  /\ CountOps(TransportOps) <= 1
  /\ \A i \in 1..Len(log) : log[i].id = cur.id
  /\ (hpc = "return" /\ result # "ok") => plan = <<>>

C34_Witness ==
  /\ hpc = "return"
  /\ result = "Timeout"
  /\ CountOps({"configure"}) = 1
  /\ CountOps(TransportOps) = 1

\* A Run action in hand whose target is not in the device's target map.
RunOfUnknownTarget ==
  /\ Busy
  /\ cur.action[1] = "Run"
  /\ cur.action[2] \notin DOMAIN targets

\* C35: when Run(target) fails in configure because the target is not in the
\* device's map, the bootloader file keeps the content it had (it is neither
\* opened nor truncated), and no WoL packet, no reboot RPC and no await
\* follow: the failed configure is the last thing done for the action.
C35_UnknownTargetTouchesNothing ==
  /\ [](RunOfUnknownTarget =>
          /\ CountOps(TransportOps \cup AwaitOps) = 0
          /\ \A i \in 1..Len(log) : log[i].op = "configure" => ~log[i].ok
          /\ result \in {"none", "UnknownTarget"}
          /\ result = "UnknownTarget" =>
               /\ hpc = "return"
               /\ log[Len(log)] = Entry("configure", <<cur.action[2]>>, FALSE))
  /\ [][RunOfUnknownTarget => grub' = grub]_vars

C35_Witness ==
  /\ RunOfUnknownTarget
  /\ result = "UnknownTarget"
  /\ grub = config_contents(targets["ubuntu"])
  /\ pingRes = Inactive

\* The transport command of the action in hand has failed.
TransportFailed ==
  /\ log # <<>>
  /\ log[Len(log)].op \in TransportOps
  /\ ~log[Len(log)].ok

\* C36: when the transport command fails the action ends at once with that
\* error: the handler returns without starting an await. For a Run the config
\* written before the command is not rolled back: the file keeps naming the
\* requested target, also after the handler has gone back to its queue.
C36_TransportFailureEndsAction ==
  /\ [](TransportFailed =>
          /\ hpc = "return"
          /\ result \in {"WakeFailed", "AgentRpcFailed"}
          /\ (result = "WakeFailed") = (log[Len(log)].op = "boot")
          /\ CountOps(AwaitOps) = 0
          /\ cur.action[1] = "Run" =>
               grub = config_contents(targets[cur.action[2]]))
  /\ [](result \in {"WakeFailed", "AgentRpcFailed"} => TransportFailed)
  /\ [][TransportFailed => grub' = grub]_vars

C36_Witness ==
  /\ TransportFailed
  /\ cur.action = Run("ubuntu")
  /\ log[Len(log)].op = "reboot"
  /\ grub = config_contents(targets["ubuntu"])
  /\ state = Running("windows")

\* C37: the accepted actions that are not yet finished are the ones in the
\* action channel, at most its capacity of one, and the one the handler has in
\* hand; so they never exceed two.
C37_AtMostTwoUnfinished ==
  /\ Unfinished =
       SeqToSet(QueuedIds) \cup (IF Busy THEN {cur.id} ELSE {})
  /\ Len(queue) <= ACTION_CAPACITY
  /\ Cardinality(Unfinished) <= ACTION_CAPACITY + 1

C37_Witness ==
  /\ Cardinality(Unfinished) = 2
  /\ hpc = "await"
  /\ queue # <<>>
  /\ rejected # {}

\* C38: an action that was accepted is still handled after every Device
\* handle was dropped: dropping a handle takes nothing out of the queue, the
\* handler exits only with nothing queued and nothing in hand, every accepted
\* action having been handled, and with no handle left it does get there.
C38_AcceptedHandledAfterDrop ==
  /\ [](hpc = "exited" =>
          /\ handles = 0
          /\ queue = <<>>
          /\ Unfinished = {}
          /\ handled = AcceptedSeq)
  /\ [][(handles' # handles) =>
          UNCHANGED <<queue, cur, hpc, popped, handled>>]_vars
  /\ [][(handles = 0 /\ queue # <<>> /\ queue' # queue) =>
          (cur' = Head(queue) /\ hpc' = "ping")]_vars
  /\ []<>(handles > 0 \/ Unfinished = {})

C38_Witness ==
  /\ handles = 0
  /\ hpc = "await"
  /\ queue # <<>>
  /\ handled # <<>>

\* C39: the flag of a Shutdown latches. It is false until a recv of that
\* Shutdown returns true, which happens when true was broadcast or the sender
\* was dropped; from then on is_shutdown() is true in every state, and every
\* later recv returns true at once, without polling the receiver.
C39_ShutdownLatches ==
  /\ [](\A d \in Tasks : taskShutdown[d] <=> (taskRecv[d] = "true"))
  /\ [][\A d \in Tasks :
          /\ taskShutdown[d] =>
               /\ taskShutdown'[d]
               /\ taskRecv'[d] = "true"
          /\ (~taskShutdown[d] /\ taskShutdown'[d]) =>
               \/ shutdownValue /\ ~taskSeen[d]
               \/ spc \in {"ok", "err", "failed"} /\ taskSeen[d]]_vars

C39_Witness ==
  \E a, b, c \in Tasks :
    /\ taskShutdown[a] /\ shutdownValue /\ task[a] = "run"
    /\ taskRecv[b] = "false" /\ ~taskShutdown[b]
    /\ taskRecv[c] = "none"
    /\ spc = "closed"


====
